---- MODULE Spec2Model ----
(***************************************************************************)
(* Model of the reverse proxy's in-memory LRU cache (filehandler.go,       *)
(* lruCache) and of the cache-wrapping file loader (loader_cache.go).      *)
(*                                                                         *)
(* The cache is a Go object: a map from key to *lruCacheItem, a doubly     *)
(* linked list of lruCacheItem nodes reached through head/tail, and two    *)
(* integers.  Pointers are modelled as indices into a heap of nodes (0 is  *)
(* nil); a nil dereference is a Go run-time panic, after which the         *)
(* deferred mutex.Unlock runs and the cache keeps the writes made so far.  *)
(***************************************************************************)
EXTENDS Integers, Sequences, FiniteSets, TLC

VARIABLES cache, lastOp, used, pc, pending, fs, lastLoad, builder, calls, server, lastRoute, fsHandler, conn, located

vars ==
    <<cache, lastOp, used, pc, pending, fs, lastLoad, builder, calls, server, lastRoute,
      fsHandler, conn, located>>

----------------------------------------------------------------------------
(* Bounds *)

MaxSize == 2
MaxNodes == 3
NumThreads == 2
MaxTime == 1
MaxLoads == 2
MaxCalls == 3
MaxErrorDepth == 3

Nil == 0

Keys == {"a", "b", "c"}
Items == [size : 1..(MaxSize + 1)]
Threads == 1..NumThreads

\* The nil CacheItem that Get returns on a miss
NoItem == [size |-> 0]

\* CacheItem.Size(): a FileContent reports len(Data), any other item its size
Size(v) == IF "Data" \in DOMAIN v THEN v.Data.len ELSE v.size

----------------------------------------------------------------------------
(* lruCache *)

\* delete(m, k) and m[k] = n of a Go map
MapDelete(m, k) == [x \in (DOMAIN m) \ {k} |-> m[x]]
MapPut(m, k, n) == [x \in (DOMAIN m) \cup {k} |-> IF x = k THEN n ELSE m[x]]

CreateLRUCache(maxsize) ==
    [keyValMap |-> [k \in {} |-> Nil], head |-> Nil, tail |-> Nil,
     maxSize |-> maxsize, curSize |-> 0, nodes |-> <<>>]

\* The body of Remove, executed under the mutex.
Remove(c, key) ==
    IF key \notin DOMAIN c.keyValMap
    THEN [c |-> c, panic |-> FALSE]
    ELSE
      LET item == c.keyValMap[key]
          c1 == [c EXCEPT !.keyValMap = MapDelete(@, key),
                          !.curSize = @ - Size(c.nodes[item].cacheItem)]
          nd == c1.nodes[item]
      IN
        IF item = c1.head THEN
            IF nd.next # Nil
            THEN [c |-> [c1 EXCEPT !.nodes[nd.next].prev = Nil, !.head = nd.next],
                  panic |-> FALSE]
            ELSE [c |-> [c1 EXCEPT !.head = Nil, !.tail = Nil], panic |-> FALSE]
        ELSE IF item = c1.tail THEN
            IF nd.prev # Nil
            THEN [c |-> [c1 EXCEPT !.nodes[nd.prev].next = Nil, !.tail = nd.prev],
                  panic |-> FALSE]
            ELSE [c |-> [c1 EXCEPT !.head = Nil, !.tail = Nil], panic |-> FALSE]
        ELSE
            IF nd.prev = Nil
            THEN [c |-> c1, panic |-> TRUE]
            ELSE
              LET c2 == [c1 EXCEPT !.nodes[nd.prev].next = nd.next]
                  nxt == c2.nodes[item].next
              IN IF nxt = Nil
                 THEN [c |-> c2, panic |-> TRUE]
                 ELSE [c |-> [c2 EXCEPT !.nodes[nxt].prev = c2.nodes[item].prev],
                       panic |-> FALSE]

\* The eviction loop of Add: drops tail nodes while the new item does not fit.
RECURSIVE Evict(_, _)
Evict(c, v) ==
    IF c.curSize + Size(v) > c.maxSize
    THEN IF c.tail = Nil
         THEN [c |-> c, panic |-> TRUE]
         ELSE
           LET t == c.nodes[c.tail]
               c1 == [c EXCEPT !.keyValMap = MapDelete(@, t.key),
                               !.curSize = @ - Size(t.cacheItem)]
               newTail == t.prev
           IN IF newTail # Nil
              THEN Evict([c1 EXCEPT !.nodes[newTail].next = Nil, !.tail = newTail], v)
              ELSE Evict([c1 EXCEPT !.head = Nil, !.tail = Nil], v)
    ELSE [c |-> c, panic |-> FALSE]

\* The part of Add that follows this.Remove(k): the size check, then the
\* locked section (eviction, map store, push at the head).
AddLocked(c, k, v) ==
    IF Size(v) > c.maxSize
    THEN [c |-> c, err |-> TRUE, panic |-> FALSE]
    ELSE
      LET e == Evict(c, v) IN
      IF e.panic
      THEN [c |-> e.c, err |-> FALSE, panic |-> TRUE]
      ELSE
        LET lruItem == Len(e.c.nodes) + 1
            node == [cacheItem |-> v, key |-> k, prev |-> Nil, next |-> Nil]
            c1 == [e.c EXCEPT !.nodes = Append(@, node),
                              !.keyValMap = MapPut(@, k, lruItem)]
        IN IF c1.head = Nil
           THEN [c |-> [c1 EXCEPT !.head = lruItem, !.tail = lruItem],
                 err |-> FALSE, panic |-> FALSE]
           ELSE [c |-> [c1 EXCEPT !.nodes[lruItem].next = c1.head,
                                  !.nodes[c1.head].prev = lruItem,
                                  !.head = lruItem],
                 err |-> FALSE, panic |-> FALSE]

\* Add as one call: this.Remove(k), then the rest.
Add(c, k, v) ==
    LET r == Remove(c, k) IN
    IF r.panic
    THEN [c |-> r.c, err |-> FALSE, panic |-> TRUE]
    ELSE AddLocked(r.c, k, v)

\* Get as a plain map lookup: a hit is returned without promoting the node
Get_NoPromote(c, key) ==
    IF key \notin DOMAIN c.keyValMap
    THEN [c |-> c, val |-> NoItem, ok |-> FALSE, panic |-> FALSE]
    ELSE [c |-> c, val |-> c.nodes[c.keyValMap[key]].cacheItem, ok |-> TRUE,
          panic |-> FALSE]

\* Get without the test "this.head != val": a hit on the head node is relinked
\* as any other, and val.prev.next is a nil dereference
Get_RelinkHead(c, key) ==
    IF key \notin DOMAIN c.keyValMap
    THEN [c |-> c, val |-> NoItem, ok |-> FALSE, panic |-> FALSE]
    ELSE
      LET val == c.keyValMap[key]
          hit == [c |-> c, val |-> c.nodes[val].cacheItem, ok |-> TRUE, panic |-> FALSE]
          boom(cc) == [c |-> cc, val |-> NoItem, ok |-> FALSE, panic |-> TRUE]
      IN
        IF c.nodes[val].prev = Nil THEN boom(c)
        ELSE
          LET c1 == [c EXCEPT !.nodes[c.nodes[val].prev].next = c.nodes[val].next]
              nx == c1.nodes[val].next
              c2 == IF nx # Nil
                    THEN [c1 EXCEPT !.nodes[nx].prev = c1.nodes[val].prev]
                    ELSE c1
              c3 == [c2 EXCEPT !.nodes[val].prev = Nil, !.nodes[val].next = c2.head]
          IN IF c3.head = Nil THEN boom(c3)
             ELSE [hit EXCEPT !.c = [c3 EXCEPT !.nodes[c3.head].prev = val,
                                               !.head = val]]

Get(c, key) ==
    IF key \notin DOMAIN c.keyValMap
    THEN [c |-> c, val |-> NoItem, ok |-> FALSE, panic |-> FALSE]
    ELSE
      LET val == c.keyValMap[key]
          hit == [c |-> c, val |-> c.nodes[val].cacheItem, ok |-> TRUE, panic |-> FALSE]
          boom(cc) == [c |-> cc, val |-> NoItem, ok |-> FALSE, panic |-> TRUE]
      IN
        IF c.head = val THEN hit
        ELSE IF c.nodes[val].prev = Nil THEN boom(c)
        ELSE
          LET c1 == [c EXCEPT !.nodes[c.nodes[val].prev].next = c.nodes[val].next]
              nx == c1.nodes[val].next
              c2 == IF nx # Nil
                    THEN [c1 EXCEPT !.nodes[nx].prev = c1.nodes[val].prev]
                    ELSE c1
              c3 == [c2 EXCEPT !.nodes[val].prev = Nil, !.nodes[val].next = c2.head]
          IN IF c3.head = Nil THEN boom(c3)
             ELSE [hit EXCEPT !.c = [c3 EXCEPT !.nodes[c3.head].prev = val,
                                               !.head = val]]

----------------------------------------------------------------------------
(* Garbage collection.  A node that no pointer path from head, tail or the *)
(* map reaches can never be read again; its slot is blanked, so that two   *)
(* caches differing only in unreachable nodes are one state.               *)

Blank == [cacheItem |-> NoItem, key |-> "", prev |-> Nil, next |-> Nil]

RECURSIVE Reach(_, _)
Reach(c, S) ==
    LET T == (S \cup {c.nodes[n].prev : n \in S} \cup {c.nodes[n].next : n \in S})
                 \ {Nil}
    IN IF T = S THEN S ELSE Reach(c, T)

Live(c) == Reach(c, ({c.head, c.tail} \cup {c.keyValMap[k] : k \in DOMAIN c.keyValMap})
                     \ {Nil})

Collect(c) ==
    [c EXCEPT !.nodes = [i \in 1..Len(c.nodes) |->
                           IF i \in Live(c) THEN c.nodes[i] ELSE Blank]]

----------------------------------------------------------------------------
(* Observations of a cache *)

\* The nodes reached from head by following next, at most n steps
RECURSIVE Walk(_, _, _)
Walk(c, n, fuel) ==
    IF n = Nil \/ fuel = 0 THEN <<>>
    ELSE <<n>> \o Walk(c, c.nodes[n].next, fuel - 1)

Chain(c) == Walk(c, c.head, Len(c.nodes) + 1)
ChainKeys(c) == [i \in 1..Len(Chain(c)) |-> c.nodes[Chain(c)[i]].key]

RECURSIVE SumSizes(_, _)
SumSizes(c, ks) ==
    IF ks = {} THEN 0
    ELSE LET k == CHOOSE x \in ks : TRUE
         IN Size(c.nodes[c.keyValMap[k]].cacheItem) + SumSizes(c, ks \ {k})

\* Sum of Size() over the entries stored in the map
StoredBytes(c) == SumSizes(c, DOMAIN c.keyValMap)

\* A sequence without the elements equal to x
RECURSIVE Without(_, _)
Without(s, x) ==
    IF s = <<>> THEN <<>>
    ELSE IF Head(s) = x THEN Without(Tail(s), x)
    ELSE <<Head(s)>> \o Without(Tail(s), x)

----------------------------------------------------------------------------
(* Files and the two loaders.  A path is a sequence of string pieces, so   *)
(* that concatenation, HasSuffix and Contains are computed on it.          *)

CompressionSuffix == <<"gzip">>

\* The ServerResource of the rule that is served
Resource ==
    [Path |-> <<"root">>,
     FSDefaults |-> [DefaultFiles |-> << <<"x", ".html">>, <<"t", ".css">> >>,
                     DefaultExtensions |-> << <<".html">>, <<".css">> >>]]

\* Request paths (req.URL.Path)
RequestPaths ==
    { <<"/", "t", ".css">>, <<"/", "p", ".png">>, <<"/", "t">>, <<"/">>,
      <<"/", "t", ".css", "gzip">> }

\* The files that may exist below the root
AbsPaths ==
    { <<"root", "/", "t", ".css">>, <<"root", "/", "p", ".png">>,
      <<"root", "/", "t", ".css", "gzip">> }

NoFile == [AbsolutePath |-> <<>>]
NoLoad == [path |-> <<>>, compression |-> FALSE, outcome |-> "none", stale |-> FALSE,
           root |-> <<>>]

\* The files that may exist below the root when paths are resolved, and the
\* request paths that are resolved
LocateFiles ==
    { <<"root", "/", "x", ".html">>, <<"root", "/", "t", ".css">>,
      <<"root", "/", "t", ".html">>, <<"root", "/", "t">>,
      <<"root", "/", "p", ".png">>, <<"root", "/", "d", ".js", "/", "t">>,
      <<"root", "/", "d", ".js", "/", "t", ".html">> }
LocatePaths ==
    { <<"/">>, <<"/", "t">>, <<"/", "t", ".css">>, <<"/", "p", ".png">>,
      <<"/", "d", ".js", "/", "t">> }

NoLocate == [path |-> <<>>]

\* Length in bytes of the file at an absolute path: the image, and a file that
\* was rewritten with more content, is larger than any cache limit used here,
\* the other files are one byte long.
FileLen(f, p) == IF p[Len(p)] = ".png" \/ f[p].grown THEN MaxSize + 2 ELSE 1

\* The nil os.FileInfo
NoFileInfo == [name |-> <<>>]

\* os.Stat: the nil FileInfo (and an error) when the path names no file
Stat(f, path) ==
    IF path \in DOMAIN f /\ f[path].exists
    THEN [name |-> path, modTime |-> f[path].modTime, size |-> FileLen(f, path)]
    ELSE NoFileInfo

HasSuffix(path, piece) == Len(path) > 0 /\ path[Len(path)] = piece
ContainsDot(path) ==
    \E i \in 1..Len(path) :
        path[i] \in {".html", ".css", ".js", ".ico", ".jpg", ".jpeg", ".png", ".gif",
                     ".txt"}

\* mimeMap and getContentTypeHeader
mimeMap ==
    [x \in {".html", ".css", ".js", ".ico", ".jpg", ".jpeg", ".png", ".gif"} |->
       CASE x = ".html" -> "text/html"
         [] x = ".css" -> "text/css"
         [] x = ".js" -> "text/javascript"
         [] x = ".ico" -> "image/x-icon"
         [] x = ".jpg" -> "image/jpeg"
         [] x = ".jpeg" -> "image/jpeg"
         [] x = ".png" -> "image/png"
         [] x = ".gif" -> "image/gif"]

getContentTypeHeader(fileInfo) ==
    IF \E key \in DOMAIN mimeMap : HasSuffix(fileInfo.name, key)
    THEN mimeMap[CHOOSE key \in DOMAIN mimeMap : HasSuffix(fileInfo.name, key)]
    ELSE "text/plain"

\* strings.HasPrefix(mimeType, "text")
MimeTextBased(mimeType) ==
    mimeType \in {"text/html", "text/css", "text/javascript", "text/plain"}

RECURSIVE FindFileByAppending(_, _, _)
FindFileByAppending(f, filePath, appendSlice) ==
    IF appendSlice = <<>> THEN [fullPath |-> <<>>, fileInfo |-> NoFileInfo]
    ELSE LET fullPath == filePath \o Head(appendSlice) IN
         IF Stat(f, fullPath) # NoFileInfo
         THEN [fullPath |-> fullPath, fileInfo |-> Stat(f, fullPath)]
         ELSE FindFileByAppending(f, filePath, Tail(appendSlice))

\* LocateFile that falls back to the concatenated path when no default file
\* or default extension gives an existing file
LocateFile_VerbatimFallback(f, requestPath, res) ==
    LET filePath == res.Path \o requestPath
        none == [fileInfo |-> NoFileInfo, path |-> requestPath]
        verbatim == IF Stat(f, filePath) # NoFileInfo
                    THEN [fileInfo |-> Stat(f, filePath), path |-> filePath]
                    ELSE none
    IN IF HasSuffix(requestPath, "/")
       THEN LET r == FindFileByAppending(f, filePath, res.FSDefaults.DefaultFiles)
            IN IF r.fileInfo # NoFileInfo THEN [fileInfo |-> r.fileInfo, path |-> r.fullPath]
               ELSE verbatim
       ELSE IF ~ContainsDot(requestPath)
       THEN LET r == FindFileByAppending(f, filePath, res.FSDefaults.DefaultExtensions)
            IN IF r.fileInfo # NoFileInfo THEN [fileInfo |-> r.fileInfo, path |-> r.fullPath]
               ELSE verbatim
       ELSE verbatim

LocateFile(f, requestPath, res) ==
    LET filePath == res.Path \o requestPath
        none == [fileInfo |-> NoFileInfo, path |-> requestPath]
    IN IF HasSuffix(requestPath, "/")
       THEN LET r == FindFileByAppending(f, filePath, res.FSDefaults.DefaultFiles)
            IN IF r.fileInfo # NoFileInfo THEN [fileInfo |-> r.fileInfo, path |-> r.fullPath]
               ELSE none
       ELSE IF ~ContainsDot(requestPath)
       THEN LET r == FindFileByAppending(f, filePath, res.FSDefaults.DefaultExtensions)
            IN IF r.fileInfo # NoFileInfo THEN [fileInfo |-> r.fileInfo, path |-> r.fullPath]
               ELSE none
       ELSE IF Stat(f, filePath) # NoFileInfo
       THEN [fileInfo |-> Stat(f, filePath), path |-> filePath]
       ELSE none

\* The nil byte slice
NoData == [src |-> <<>>, ver |-> 0, gzip |-> FALSE, len |-> 0]

\* ioutil.ReadFile, then gzip when compression is set: the bytes are named by
\* the file and its version; the gzip stream of these short files is longer
\* than its input.  A file that cannot be read gives the error.
ReadFile(f, absolutePath, compression) ==
    LET raw == [src |-> absolutePath, ver |-> f[absolutePath].modTime,
                gzip |-> FALSE, len |-> FileLen(f, absolutePath)]
    IN IF ~f[absolutePath].readable THEN [data |-> NoData, err |-> TRUE]
       ELSE IF compression
       THEN [data |-> [raw EXCEPT !.gzip = TRUE, !.len = @ + 1], err |-> FALSE]
       ELSE [data |-> raw, err |-> FALSE]

\* FileSystemLoader.GetFile
FSGetFile(f, requestPath, res, compression) ==
    LET loc == LocateFile(f, requestPath, res) IN
    IF loc.fileInfo # NoFileInfo
    THEN LET mimeType == getContentTypeHeader(loc.fileInfo)
             ignoreCompression == ~MimeTextBased(mimeType)
             comp == IF ignoreCompression THEN FALSE ELSE compression
         IN IF ~ReadFile(f, loc.path, comp).err
            THEN [fc |-> [FileInfo |-> loc.fileInfo, AbsolutePath |-> loc.path,
                          Data |-> ReadFile(f, loc.path, comp).data,
                          Compression |-> comp,
                          IgnoreCompression |-> ignoreCompression,
                          MimeType |-> mimeType],
                  err |-> FALSE]
            ELSE [fc |-> NoFile, err |-> TRUE]
    ELSE [fc |-> NoFile, err |-> TRUE]

\* The value of F at e, with e computed once (a local variable of the code)
Bind(e, F(_)) == CHOOSE y \in {F(x) : x \in {e}} : TRUE

\* CacheFileLoader.CheckFileInCache
CheckFileInCache(c, filePath, compression) ==
    LET miss(cc, p) == [c |-> cc, fc |-> NoFile, present |-> FALSE, key |-> <<>>,
                        panic |-> p]
        found(cc, v, k) == [c |-> cc, fc |-> v, present |-> TRUE, key |-> k,
                            panic |-> FALSE]
    IN
    IF compression
    THEN Bind(Get(c, filePath \o CompressionSuffix), LAMBDA g1 :
           IF g1.panic THEN miss(g1.c, TRUE)
           ELSE IF g1.ok THEN found(g1.c, g1.val, filePath \o CompressionSuffix)
           ELSE Bind(Get(g1.c, filePath), LAMBDA g2 :
                  IF g2.panic THEN miss(g2.c, TRUE)
                  ELSE IF g2.ok /\ g2.val.IgnoreCompression
                  THEN found(g2.c, g2.val, filePath)
                  ELSE miss(g2.c, FALSE)))
    ELSE Bind(Get(c, filePath), LAMBDA g :
           IF g.panic THEN miss(g.c, TRUE)
           ELSE IF g.ok THEN found(g.c, g.val, filePath)
           ELSE miss(g.c, FALSE))

\* CacheFileLoader.GetFileInCache.  found/foundKey report the entry the lookup
\* hit, whether or not it is returned.
GetFileInCache(c, f, filePath, compression) ==
    Bind(CheckFileInCache(c, filePath, compression), LAMBDA chk :
      IF chk.panic
      THEN [c |-> chk.c, fc |-> NoFile, panic |-> TRUE, found |-> NoFile,
            foundKey |-> <<>>]
      ELSE IF chk.present
      THEN Bind(Stat(f, chk.fc.AbsolutePath), LAMBDA curFileInfo :
             IF curFileInfo # NoFileInfo
                /\ chk.fc.FileInfo.modTime = curFileInfo.modTime
             THEN [c |-> chk.c, fc |-> chk.fc, panic |-> FALSE, found |-> chk.fc,
                   foundKey |-> chk.key]
             ELSE Bind(Remove(chk.c, filePath), LAMBDA r :
                    [c |-> r.c, fc |-> NoFile, panic |-> r.panic, found |-> chk.fc,
                     foundKey |-> chk.key]))
      ELSE [c |-> chk.c, fc |-> NoFile, panic |-> FALSE, found |-> NoFile,
            foundKey |-> <<>>])

\* CacheFileLoader.GetFile
CacheGetFile(c, f, filePath, res, compression) ==
    Bind(GetFileInCache(c, f, filePath, compression), LAMBDA hit :
      LET base == [c |-> hit.c, fc |-> NoFile, err |-> FALSE, panic |-> FALSE,
                   found |-> hit.found, foundKey |-> hit.foundKey, wrapped |-> FALSE]
      IN
      IF hit.panic THEN [base EXCEPT !.panic = TRUE]
      ELSE IF hit.fc = NoFile
      THEN Bind(FSGetFile(f, filePath, res, compression), LAMBDA w :
             IF ~w.err
             THEN Bind(Add(hit.c, IF w.fc.Compression
                                  THEN filePath \o CompressionSuffix
                                  ELSE filePath, w.fc), LAMBDA a :
                    IF a.panic
                    THEN [base EXCEPT !.c = a.c, !.panic = TRUE, !.wrapped = TRUE]
                    ELSE [base EXCEPT !.c = a.c, !.fc = w.fc, !.wrapped = TRUE])
             ELSE [base EXCEPT !.err = TRUE, !.wrapped = TRUE])
      ELSE [base EXCEPT !.fc = hit.fc])

----------------------------------------------------------------------------
(* The cache registry.  Cache instances live in a heap and are named by    *)
(* their index; the registry maps cache names to instances.                *)

LRUCache == "lru"
Empty == ""

CacheNames == {"", "A", "B"}
CacheTypes == {LRUCache, Empty, "JohnnoSmash"}
CacheLimits == {0, 1, 2}

CreateCacheBuilder == [CacheMap |-> <<>>, instances |-> <<>>]

\* CacheBuilder.CreateCacheAlgol: the new instance, or a panic
CreateCacheAlgol(b, cacheType, limit) ==
    IF cacheType = LRUCache
    THEN [b |-> [b EXCEPT !.instances = Append(@, CreateLRUCache(limit))],
          cache |-> Len(b.instances) + 1, panic |-> FALSE]
    ELSE [b |-> b, cache |-> Nil, panic |-> TRUE]

\* CreateCache without the lookup of the name: a named cache is created and
\* registered again on every call
CreateCache_NoLookup(b, cacheName, cacheType, cacheLimit) ==
    IF cacheLimit > 0
    THEN Bind(CreateCacheAlgol(b, cacheType, cacheLimit), LAMBDA a :
           IF a.panic
           THEN [b |-> b, cache |-> Nil, err |-> FALSE, panic |-> TRUE]
           ELSE [b |-> IF cacheName # ""
                       THEN [a.b EXCEPT !.CacheMap = MapPut(@, cacheName, a.cache)]
                       ELSE a.b,
                 cache |-> a.cache, err |-> FALSE, panic |-> FALSE])
    ELSE [b |-> b, cache |-> Nil, err |-> FALSE, panic |-> FALSE]

\* CacheBuilder.CreateCache.  The function has one result, the cache: err is
\* the error value the callers read, which this code never produces.
CreateCache(b, cacheName, cacheType, cacheLimit) ==
    IF cacheLimit > 0
    THEN IF cacheName # ""
         THEN IF cacheName \in DOMAIN b.CacheMap
              THEN [b |-> b, cache |-> b.CacheMap[cacheName], err |-> FALSE,
                    panic |-> FALSE]
              ELSE Bind(CreateCacheAlgol(b, cacheType, cacheLimit), LAMBDA a :
                     IF a.panic
                     THEN [b |-> b, cache |-> Nil, err |-> FALSE, panic |-> TRUE]
                     ELSE [b |-> [a.b EXCEPT !.CacheMap = MapPut(@, cacheName, a.cache)],
                           cache |-> a.cache, err |-> FALSE, panic |-> FALSE])
         ELSE Bind(CreateCacheAlgol(b, cacheType, cacheLimit), LAMBDA a :
                [b |-> a.b, cache |-> a.cache, err |-> FALSE, panic |-> a.panic])
    ELSE [b |-> b, cache |-> Nil, err |-> FALSE, panic |-> FALSE]

----------------------------------------------------------------------------
(* The router.  A host is a sequence of pieces, as a path is; a regular    *)
(* expression is a sequence of piece classes and matches a string that     *)
(* holds, at some position, one piece of each class in turn.               *)

FileSystem == "file_system"
UnixSocket == "unix_socket"
HttpSocket == "http_socket"

\* regexp.MatchString: an unanchored match
MatchString(pattern, str) ==
    \E i \in 0..(Len(str) - Len(pattern)) :
        \A j \in 1..Len(pattern) : str[i + j] \in pattern[j]

\* strings.Index: the position of the first piece equal to x, 0 when there is
\* none (positions count from 1)
RECURSIVE IndexFrom(_, _, _)
IndexFrom(str, x, i) ==
    IF i > Len(str) THEN 0
    ELSE IF str[i] = x THEN i
    ELSE IndexFrom(str, x, i + 1)

Index(str, x) == IndexFrom(str, x, 1)

\* The type switch with the handlers of unix_socket and http_socket exchanged
HandlerForType_Swapped(type) ==
    CASE type = FileSystem -> "HandlerFS"
      [] type = UnixSocket -> "HandlerHttpSocket"
      [] type = HttpSocket -> "HandlerUnixSocket"
      [] OTHER -> "panic"

\* "switch resource.Type" of createServerHandler: the handler function the
\* rule's PathMapping gets; any other type panics
HandlerForType(type) ==
    CASE type = FileSystem -> "HandlerFS"
      [] type = UnixSocket -> "HandlerUnixSocket"
      [] type = HttpSocket -> "HandlerHttpSocket"
      [] OTHER -> "panic"

NoMapping == [rule |-> <<0, 0>>]
NoServerHandler == [HostMappings |-> <<>>, DefaultMappings |-> <<>>, panic |-> FALSE]

\* The rule list createServerHandler builds for block bi.  Every context of
\* the block receives &resource, the address of the one loop variable of
\* "for _, resource := range sb.Content", which holds the block's last
\* resource once the loop has ended.
PathMappingsOf(blocks, bi) ==
    LET content == blocks[bi].Content IN
    [ri \in 1..Len(content) |->
       [Pattern |-> content[ri].Match,
        Handler |-> HandlerForType(content[ri].Type),
        Context |-> [Resource |-> content[Len(content)]],
        rule |-> <<bi, ri>>]]

\* Some resource of the block has a type that is no handler type
UnknownType(blocks, bi) ==
    \E ri \in 1..Len(blocks[bi].Content) :
        HandlerForType(blocks[bi].Content[ri].Type) = "panic"

\* sh.HostMappings after the blocks 1..n: a later block replaces the list of a
\* hostname that an earlier block registered
RECURSIVE HostMappingsOf(_, _)
HostMappingsOf(blocks, n) ==
    IF n = 0 THEN <<>>
    ELSE LET before == HostMappingsOf(blocks, n - 1)
             names == {blocks[n].Hosts[i].Host : i \in 1..Len(blocks[n].Hosts)}
         IN [h \in (DOMAIN before) \cup names |->
               IF h \in names THEN PathMappingsOf(blocks, n) ELSE before[h]]

\* createServerHandler
createServerHandler(blocks) ==
    LET flagged == {i \in 1..Len(blocks) : blocks[i].Default}
        defaultMapping == IF flagged = {} THEN 1
                          ELSE CHOOSE i \in flagged : \A j \in flagged : j <= i
        hm == HostMappingsOf(blocks, Len(blocks))
    IN IF \/ \E bi \in 1..Len(blocks) : UnknownType(blocks, bi)
          \/ Len(blocks) = 0
          \/ Len(blocks[defaultMapping].Hosts) = 0
       THEN [NoServerHandler EXCEPT !.panic = TRUE]
       ELSE [HostMappings |-> hm,
             DefaultMappings |-> hm[blocks[defaultMapping].Hosts[1].Host],
             panic |-> FALSE]

\* matchMapping: the first mapping whose pattern matches the path
RECURSIVE matchMapping(_, _)
matchMapping(mappings, path) ==
    IF mappings = <<>> THEN NoMapping
    ELSE IF MatchString(Head(mappings).Pattern, path) THEN Head(mappings)
    ELSE matchMapping(Tail(mappings), path)

\* ServerHandler.HostHandler up to the call of the mapping's handler
HostHandler(sh, reqHost, path) ==
    LET colonIndex == Index(reqHost, ":")
        host == IF colonIndex # 0 THEN SubSeq(reqHost, 1, colonIndex - 1) ELSE reqHost
        mappings == IF host \in DOMAIN sh.HostMappings THEN sh.HostMappings[host]
                    ELSE sh.DefaultMappings
        mapping == matchMapping(mappings, path)
    IN IF mapping # NoMapping
       THEN [mapping |-> mapping, panic |-> FALSE]
       ELSE [mapping |-> NoMapping, panic |-> TRUE]

\* The configurations: two blocks, each with one or two hosts and rules
HostNames == { <<"a">>, <<"b">>, <<"[", ":", ":", "1", "]">> }
RequestHosts ==
    HostNames \cup {h \o <<":", "80">> : h \in HostNames}
      \cup { <<"z">>, <<"z", ":", "80">> }

ImgRule == [Match |-> << {"/"}, {"img"} >>, Type |-> FileSystem, Path |-> <<"root">>]
AnyRule == [Match |-> << {"/"} >>, Type |-> HttpSocket, Path |-> <<"up">>]
CssRule == [Match |-> << {".css", ".html"} >>, Type |-> FileSystem, Path |-> <<"alt">>]
SockRule == [Match |-> << {"t"} >>, Type |-> UnixSocket, Path |-> <<"sock">>]
FtpRule == [Match |-> << {"/"} >>, Type |-> "ftp", Path |-> <<"up">>]

HostLists ==
    { <<>>,
      << [Host |-> <<"a">>, Port |-> 80] >>,
      << [Host |-> <<"b">>, Port |-> 80] >>,
      << [Host |-> <<"[", ":", ":", "1", "]">>, Port |-> 80] >>,
      << [Host |-> <<"b">>, Port |-> 80], [Host |-> <<"a">>, Port |-> 80] >> }
ContentLists ==
    { <<ImgRule, AnyRule>>, <<AnyRule, ImgRule>>, <<CssRule>>, <<ImgRule, CssRule>>,
      <<SockRule, CssRule>>, <<ImgRule, FtpRule>> }
ServerBlocks == [Hosts : HostLists, Content : ContentLists, Default : BOOLEAN]
Configs == {<<b1, b2>> : b1 \in ServerBlocks, b2 \in ServerBlocks}

RouterPaths ==
    { <<"/", "img", "/", "p", ".png">>, <<"/", "t", ".css">>, <<"/", "t">> }

NoServer == [blocks |-> <<>>, sh |-> NoServerHandler]
NoRoute == [host |-> <<>>, path |-> <<>>, mapping |-> NoMapping, panic |-> FALSE,
            status |-> 0]

----------------------------------------------------------------------------
(* The filesystem handler.  A time is a number of ticks, TicksPerSecond to *)
(* the second; an If-Modified-Since value is given by the date layout it   *)
(* is written in, its fourth character and the second it names.            *)

TicksPerSecond == 2

\* Time.Truncate(time.Second)
Truncate(t) == t - (t % TicksPerSecond)

\* Time.In(GMTLoc).Format(time.RFC1123)
FormatRFC1123(t) == [layout |-> "RFC1123", fourth |-> ",", sec |-> t \div TicksPerSecond]

\* time.Parse(layout, ms)
Parse(layout, ms) ==
    IF ms.layout = layout THEN [time |-> ms.sec * TicksPerSecond, err |-> FALSE]
    ELSE [time |-> 0, err |-> TRUE]

\* req.Header without If-Modified-Since, and with an empty list of values
NoHeader == [layout |-> "absent", fourth |-> "", sec |-> 0]
EmptyHeader == [layout |-> "empty", fourth |-> "", sec |-> 0]

\* isModifiedSince: ms[3] of a value shorter than four characters is an index
\* out of range
isModifiedSince(ims, fi) ==
    IF ims \in {NoHeader, EmptyHeader} THEN [modified |-> TRUE, panic |-> FALSE]
    ELSE IF ims.fourth = "" THEN [modified |-> TRUE, panic |-> TRUE]
    ELSE LET parsed == CASE ims.fourth = "," -> Parse("RFC1123", ims)
                         [] ims.fourth = " " -> Parse("ANSIC", ims)
                         [] OTHER -> Parse("RFC850", ims)
         IN [modified |-> ~(~parsed.err /\ Truncate(fi.modTime) = parsed.time),
             panic |-> FALSE]

\* The http.ResponseWriter of a connection: status is the status line sent (0
\* when none is sent yet), calls the status codes passed to WriteHeader, header
\* the map that Header() returns and sent the headers that went out with the
\* status line: the content of the map at that moment
NewResponse ==
    [status |-> 0, calls |-> <<>>, header |-> <<>>, body |-> <<>>, sent |-> <<>>]

WriteHeader(w, code) ==
    [w EXCEPT !.calls = Append(@, code),
              !.status = IF @ = 0 THEN code ELSE @,
              !.sent = IF w.status = 0 THEN w.header ELSE @]

SetHeader(w, name, val) == [w EXCEPT !.header = MapPut(@, name, val)]

\* ResponseWriter.Write: sends status 200 first when no status is sent yet;
\* fails when the client is gone
Write(w, data, fails) ==
    LET w1 == IF w.status = 0 THEN [w EXCEPT !.status = 200, !.sent = w.header] ELSE w
    IN [w |-> IF fails THEN w1 ELSE [w1 EXCEPT !.body = Append(@, data)],
        err |-> fails]

\* FSHandler.writeFile up to its call of handleError
writeFile(w, ims, content, fails) ==
    LET w1 == SetHeader(w, "Content-Type", getContentTypeHeader(content.FileInfo))
        m == isModifiedSince(ims, content.FileInfo)
        w2 == SetHeader(SetHeader(SetHeader(w1, "Expires", "-1"),
                                  "Cache-Control", "must-revalidate, private"),
                        "Last-Modified", FormatRFC1123(content.FileInfo.modTime))
        w3 == IF content.Compression THEN SetHeader(w2, "Content-Encoding", "gzip")
              ELSE w2
    IN IF m.panic THEN [w |-> w1, panic |-> TRUE, writeErr |-> FALSE]
       ELSE IF ~m.modified
       THEN [w |-> WriteHeader(w1, 304), panic |-> FALSE, writeErr |-> FALSE]
       ELSE [w |-> Write(w3, content.Data, fails).w, panic |-> FALSE,
             writeErr |-> Write(w3, content.Data, fails).err]

\* strconv.Itoa
Digit == <<"0", "1", "2", "3", "4", "5", "6", "7", "8", "9">>
RECURSIVE Itoa(_)
Itoa(n) == IF n < 10 THEN <<Digit[n + 1]>> ELSE Itoa(n \div 10) \o <<Digit[(n % 10) + 1]>>

\* FSHandler.findErrorFile
RECURSIVE findErrorFile(_, _)
findErrorFile(errorMappings, error) ==
    IF errorMappings = <<>> THEN <<>>
    ELSE IF MatchString(Head(errorMappings).Pattern, Itoa(error))
    THEN Head(errorMappings).Path
    ELSE findErrorFile(Tail(errorMappings), error)

\* The error rules of a configuration: "40[0-9]", "404" and "50[0-9]"
AnyDigit == {Digit[i] : i \in 1..10}
Rule40x == [Match |-> << {"4"}, {"0"}, AnyDigit >>, Path |-> <<"/", "40x", ".txt">>]
Rule404 == [Match |-> << {"4"}, {"0"}, {"4"} >>, Path |-> <<"/", "404", ".txt">>]
Rule50x == [Match |-> << {"5"}, {"0"}, AnyDigit >>, Path |-> <<"/", "50x", ".txt">>]
ErrorConfigs == { <<>>, <<Rule40x, Rule404>>, <<Rule404, Rule40x>>, <<Rule50x>> }

\* The orders in which "for k, v := range resource.Error" can visit the entries
\* of the map resource.Error: any order
RangeOrders(rules) ==
    {q \in [1..Len(rules) -> {rules[i] : i \in 1..Len(rules)}] :
        \A i, j \in 1..Len(rules) : i # j => q[i] # q[j]}

\* The ErrorMappings that CreateRequestContext can build from the error rules
ErrorMappingsOf(rules) ==
    {[i \in 1..Len(q) |-> [Pattern |-> q[i].Match, Path |-> q[i].Path]] :
        q \in RangeOrders(rules)}

\* The ServerResource of the handler and NewFSHandler
HandlerResource(compression, rules) ==
    [Path |-> Resource.Path, FSDefaults |-> Resource.FSDefaults,
     Compression |-> compression, Error |-> rules]

NewFSHandlers(rsc, cached) ==
    {[Resource |-> rsc, ErrorMappings |-> em, cached |-> cached] :
        em \in ErrorMappingsOf(rsc.Error)}

\* FSHandler.shouldUseCompression
shouldUseCompression(h, accept) ==
    h.Resource.Compression /\ \E i \in 1..Len(accept) : accept[i] = "gzip"

\* this.FileAccessor.GetFile: the filesystem loader, wrapped by the cache
\* loader when the resource names a cache strategy
AccessorGetFile(h, c, f, path, compression) ==
    IF h.cached
    THEN Bind(CacheGetFile(c, f, path, h.Resource, compression), LAMBDA r :
           [c |-> r.c, fc |-> r.fc, err |-> r.err, panic |-> r.panic])
    ELSE Bind(FSGetFile(f, path, h.Resource, compression), LAMBDA r :
           [c |-> c, fc |-> r.fc, err |-> r.err, panic |-> FALSE])

\* The files below the root of the handler, the requests and their headers
HandlerFiles ==
    { <<"root", "/", "t", ".css">>, <<"root", "/", "p", ".png">>,
      <<"root", "/", "40x", ".txt">>, <<"root", "/", "404", ".txt">>,
      <<"root", "/", "50x", ".txt">> }
HandlerPaths ==
    { <<"/", "t", ".css">>, <<"/", "p", ".png">>, <<"/", "missing", ".html">>,
      <<"/", "t", ".css", "gzip">> }
HeaderValues ==
    {NoHeader, EmptyHeader}
      \cup [layout : {"RFC1123"}, fourth : {","}, sec : 0..1]
      \cup [layout : {"ANSIC"}, fourth : {" "}, sec : 0..1]
      \cup [layout : {"RFC850"}, fourth : {"d"}, sec : 0..1]
      \cup [layout : {"none"}, fourth : {",", "d", ""}, sec : {0}]
AcceptEncodings == { <<>>, <<"deflate", "gzip">> }

\* The size of the buffer the body is read into (1024 in the source, scaled)
BufferMax == 2

\* The body of an upstream response as an io.ReadCloser: the reads it will
\* answer, each with the bytes of one Read ("<<>>" is a read of no bytes and no
\* error), and how it ends: with io.EOF, with another error, or never (the
\* connection stays open and idle); withEnd says that the last read of data
\* comes together with the end
NoReader == [chunks |-> <<>>, withEnd |-> FALSE, end |-> "EOF"]
ChunkLists ==
    { <<>>, << <<"a">> >>, << <<"a", "b">> >>, << <<"a">>, <<"b">> >>,
      << <<>>, <<"a">> >>, << <<"a", "b", "c">> >> }
Readers ==
    { r \in [chunks : ChunkLists, withEnd : BOOLEAN, end : {"EOF", "error", "idle"}] :
        r.withEnd => (r.chunks # <<>> /\ r.end # "idle") }

\* io.Reader.Read into a buffer of max bytes: the bytes read, the error ("nil"
\* for none) and the reader afterwards
Read(reader, max) ==
    IF reader.chunks = <<>>
    THEN [n |-> <<>>, err |-> IF reader.end = "idle" THEN "nil" ELSE reader.end,
          reader |-> reader]
    ELSE LET c == Head(reader.chunks) IN
         IF Len(c) > max
         THEN [n |-> SubSeq(c, 1, max), err |-> "nil",
               reader |-> [reader EXCEPT
                             !.chunks = <<SubSeq(c, max + 1, Len(c))>> \o Tail(@)]]
         ELSE [n |-> c,
               err |-> IF Len(reader.chunks) = 1 /\ reader.withEnd THEN reader.end
                       ELSE "nil",
               reader |-> [reader EXCEPT !.chunks = Tail(@)]]

\* What writeToResponse reads from: the body itself, or the WrapperReader
\* around it that holds the byte read in advance
BodyReader(reader) ==
    [UnderlyingReader |-> reader, B |-> "", ByteRead |-> FALSE, wrapped |-> FALSE]
WrapperReader(reader, b) ==
    [UnderlyingReader |-> reader, B |-> b, ByteRead |-> FALSE, wrapped |-> TRUE]

\* WrapperReader.Read, and Read of the body itself when there is no wrapper
WrapperRead(this, max) ==
    IF this.wrapped /\ ~this.ByteRead
    THEN LET r == Read(this.UnderlyingReader, max - 1)
         IN [n |-> <<this.B>> \o r.n, err |-> r.err,
             resp |-> [this EXCEPT !.ByteRead = TRUE, !.UnderlyingReader = r.reader]]
    ELSE LET r == Read(this.UnderlyingReader, max)
         IN [n |-> r.n, err |-> r.err,
             resp |-> [this EXCEPT !.UnderlyingReader = r.reader]]

\* What the upstream server does with the forwarded request: the request
\* cannot be created, client.Do fails, or a response arrives with a status,
\* headers, a ContentLength (-1 when unknown) and a body
NoUpstream ==
    [kind |-> "none", status |-> 0, header |-> <<>>, ContentLength |-> 0,
     body |-> NoReader]
RECURSIVE Flatten(_)
Flatten(chunks) ==
    IF chunks = <<>> THEN <<>> ELSE Head(chunks) \o Flatten(Tail(chunks))
Responses(statuses, headers, readers) ==
    { u \in [kind : {"response"}, status : statuses, header : headers,
             ContentLength : -1..3, body : readers] :
        u.ContentLength \in {-1, Len(Flatten(u.body.chunks))} }
Upstreams ==
    {[NoUpstream EXCEPT !.kind = "create_error"], [NoUpstream EXCEPT !.kind = "do_error"]}
      \cup Responses({200}, {<<>>, [n \in {"X-Up"} |-> "v"]},
                     { r \in Readers :
                         r.chunks \in { <<>>, << <<"a">> >>, << <<"a">>, <<"b">> >> } })
      \cup Responses({304, 404, 503}, {<<>>, [n \in {"X-Up"} |-> "v"]},
                     {NoReader, [NoReader EXCEPT !.chunks = << <<"a">> >>]})

\* "for k, v := range resp.Header { w.Header()[k] = v }"
RECURSIVE CopyHeader(_, _, _)
CopyHeader(w, header, names) ==
    IF names = {} THEN w
    ELSE LET k == CHOOSE x \in names : TRUE
         IN CopyHeader(SetHeader(w, k, header[k]), header, names \ {k})

\* The loop of writeToResponse: w, the reader and what the loop has returned
\* ("" while it runs)
Streaming(w, resp, ret) == [w |-> w, resp |-> resp, ret |-> ret]

\* HttpHandler.writeBody up to its return or its entry of the loop of
\* writeToResponse: with an unknown length one byte is read in advance
writeBody(w, up) ==
    IF up.ContentLength <= 0
    THEN LET r == Read(up.body, 1) IN
         IF r.err # "nil" THEN Streaming(w, BodyReader(r.reader), r.err)
         ELSE Streaming(w, WrapperReader(r.reader, IF r.n = <<>> THEN "NUL" ELSE r.n[1]),
                        "")
    ELSE Streaming(w, BodyReader(up.body), "")

\* One pass of the loop of writeToResponse; the result of Write is not looked at
Iteration(st, fails) ==
    LET r == WrapperRead(st.resp, BufferMax) IN
    IF r.n = <<>>
    THEN IF r.err # "nil" THEN Streaming(st.w, r.resp, r.err)
         ELSE Streaming(st.w, r.resp, "")
    ELSE Streaming(Write(st.w, r.n, fails).w, r.resp, "")

\* The loop has reached the reads of no bytes and no error that never end
IdleForever(st) ==
    /\ st.ret = ""
    /\ st.resp.wrapped => st.resp.ByteRead
    /\ st.resp.UnderlyingReader.chunks = <<>>
    /\ st.resp.UnderlyingReader.end = "idle"

\* HttpHandler.writeToResponse from the entry of its loop: the passes up to the
\* return, or up to the point from which no pass changes anything
RECURSIVE writeToResponse(_, _)
writeToResponse(st, fails) ==
    IF st.ret # "" \/ IdleForever(st) THEN st
    ELSE writeToResponse(Iteration(st, fails), fails)

\* HandleSocket that writes the upstream status before it looks at it
HandleSocket_WriteFirst(w, up, fails) ==
    IF up.kind # "response" THEN [w |-> w, status |-> 500, returned |-> TRUE]
    ELSE LET w1 == CopyHeader(WriteHeader(w, up.status), up.header, DOMAIN up.header)
             st == writeToResponse(writeBody(w1, up), fails)
         IN IF up.status \notin {200, 304}
            THEN [w |-> w1, status |-> up.status, returned |-> TRUE]
            ELSE [w |-> st.w, status |-> IF st.ret = "EOF" THEN 200 ELSE 500,
                  returned |-> st.ret # ""]

\* HttpHandler.HandleSocket: the response writer after it, the status it
\* returns and whether it returns at all
HandleSocket(w, up, fails) ==
    IF up.kind # "response" THEN [w |-> w, status |-> 500, returned |-> TRUE]
    ELSE IF up.status \notin {200, 304}
    THEN [w |-> w, status |-> up.status, returned |-> TRUE]
    ELSE LET w1 == CopyHeader(WriteHeader(w, up.status), up.header, DOMAIN up.header)
             st == writeToResponse(writeBody(w1, up), fails)
         IN [w |-> st.w, status |-> IF st.ret = "EOF" THEN 200 ELSE 500,
             returned |-> st.ret # ""]

\* The ServerResource of an http_socket rule, whose Path is the upstream URL,
\* and the files that root + error file can name
HttpResource(compression, rules) ==
    [Path |-> <<"up">>, FSDefaults |-> Resource.FSDefaults,
     Compression |-> compression, Error |-> rules]
HttpFiles ==
    { <<"up", "/", "40x", ".txt">>, <<"up", "/", "404", ".txt">>,
      <<"up", "/", "50x", ".txt">> }
HttpPaths == { <<"/", "t", ".css">>, <<"/", "api">> }

NoHandler == [Resource |-> HandlerResource(FALSE, <<>>), ErrorMappings |-> <<>>,
              cached |-> FALSE]
NoConn == [pc |-> "idle", Path |-> <<>>, reqPath |-> <<>>, ims |-> NoHeader,
           reqIms |-> NoHeader, accept |-> <<>>, fails |-> FALSE, w |-> NewResponse,
           error |-> 0, useCompression |-> FALSE, entries |-> 0, panic |-> FALSE,
           served |-> NoFile, upstream |-> NoUpstream,
           resp |-> BodyReader(NoReader), ret |-> "", pass |-> 0]

----------------------------------------------------------------------------
(* Sequential use: one operation at a time *)

NoOp == [op |-> "none", key |-> "", item |-> NoItem, ret |-> NoItem,
         ok |-> FALSE, err |-> FALSE, panic |-> FALSE, moved |-> FALSE]

Init ==
    /\ cache = CreateLRUCache(MaxSize)
    /\ lastOp = NoOp
    /\ used = <<>>
    /\ pc = [t \in Threads |-> "idle"]
    /\ pending = [t \in Threads |-> [key |-> "", item |-> NoItem]]
    /\ fs = [p \in AbsPaths |-> [exists |-> TRUE, modTime |-> 0, readable |-> TRUE,
                 grown |-> FALSE]]
    /\ lastLoad = NoLoad
    /\ builder = CreateCacheBuilder
    /\ calls = <<>>
    /\ server = NoServer
    /\ lastRoute = NoRoute
    /\ fsHandler = NoHandler
    /\ conn = NoConn
    /\ located = NoLocate

\* Keys in order of their last successful Add or Get hit, most recent first,
\* restricted to the keys still stored.
Touch(u, k, m) ==
    LET u1 == IF k \in DOMAIN m THEN <<k>> \o Without(u, k) ELSE Without(u, k)
    IN SelectSeq(u1, LAMBDA x : x \in DOMAIN m)

AddOp(k, v) ==
    /\ Len(cache.nodes) < MaxNodes
    /\ LET r == Add(cache, k, v) IN
         /\ cache' = Collect(r.c)
         /\ lastOp' = [op |-> "Add", key |-> k, item |-> v, ret |-> NoItem,
                       ok |-> ~r.err /\ ~r.panic, err |-> r.err, panic |-> r.panic,
                       moved |-> FALSE]
         /\ used' = IF ~r.err /\ ~r.panic
                    THEN Touch(used, k, r.c.keyValMap)
                    ELSE SelectSeq(used, LAMBDA x : x \in DOMAIN r.c.keyValMap)
    /\ UNCHANGED <<pc, pending, fs, lastLoad, builder, calls, server, lastRoute, fsHandler, conn, located>>

GetOp(k) ==
    /\ LET r == Get(cache, k) IN
         /\ cache' = Collect(r.c)
         /\ lastOp' = [op |-> "Get", key |-> k, item |-> NoItem, ret |-> r.val,
                       ok |-> r.ok, err |-> FALSE, panic |-> r.panic,
                       moved |-> r.c.head # cache.head]
         /\ used' = IF r.ok THEN Touch(used, k, r.c.keyValMap) ELSE used
    /\ UNCHANGED <<pc, pending, fs, lastLoad, builder, calls, server, lastRoute, fsHandler, conn, located>>

RemoveOp(k) ==
    /\ LET r == Remove(cache, k) IN
         /\ cache' = Collect(r.c)
         /\ lastOp' = [op |-> "Remove", key |-> k, item |-> NoItem, ret |-> NoItem,
                       ok |-> ~r.panic, err |-> FALSE, panic |-> r.panic,
                       moved |-> FALSE]
         /\ used' = SelectSeq(used, LAMBDA x : x \in DOMAIN r.c.keyValMap)
    /\ UNCHANGED <<pc, pending, fs, lastLoad, builder, calls, server, lastRoute, fsHandler, conn, located>>

Next ==
    \/ \E k \in Keys, v \in Items : AddOp(k, v)
    \/ \E k \in Keys : GetOp(k)
    \/ \E k \in Keys : RemoveOp(k)

Spec == Init /\ [][Next]_vars

----------------------------------------------------------------------------
(* Concurrent use: threads call Add, Get and Remove on one cache.  The     *)
(* mutex makes each locked section one step; Add is two steps, because it  *)
(* calls this.Remove(k), which takes and releases the mutex, before it     *)
(* takes the mutex itself.                                                 *)

Idle == [key |-> "", item |-> NoItem]

InFlight == Cardinality({t \in Threads : pc[t] = "add_locked"})

AddBegin(t, k, v) ==
    /\ pc[t] = "idle"
    /\ Len(cache.nodes) + InFlight < MaxNodes
    /\ LET r == Remove(cache, k) IN
         /\ cache' = Collect(r.c)
         /\ pc' = [pc EXCEPT ![t] = IF r.panic THEN "idle" ELSE "add_locked"]
         /\ pending' = [pending EXCEPT ![t] = IF r.panic THEN Idle
                                              ELSE [key |-> k, item |-> v]]
         /\ lastOp' = [op |-> "AddBegin", key |-> k, item |-> v, ret |-> NoItem,
                       ok |-> ~r.panic, err |-> FALSE, panic |-> r.panic,
                       moved |-> FALSE]
    /\ UNCHANGED <<used, fs, lastLoad, builder, calls, server, lastRoute, fsHandler, conn, located>>

AddEnd(t) ==
    /\ pc[t] = "add_locked"
    /\ LET r == AddLocked(cache, pending[t].key, pending[t].item) IN
         /\ cache' = Collect(r.c)
         /\ lastOp' = [op |-> "Add", key |-> pending[t].key, item |-> pending[t].item,
                       ret |-> NoItem, ok |-> ~r.err /\ ~r.panic, err |-> r.err,
                       panic |-> r.panic, moved |-> FALSE]
    /\ pc' = [pc EXCEPT ![t] = "idle"]
    /\ pending' = [pending EXCEPT ![t] = Idle]
    /\ UNCHANGED <<used, fs, lastLoad, builder, calls, server, lastRoute, fsHandler, conn, located>>

GetC(t, k) ==
    /\ pc[t] = "idle"
    /\ LET r == Get(cache, k) IN
         /\ cache' = Collect(r.c)
         /\ lastOp' = [op |-> "Get", key |-> k, item |-> NoItem, ret |-> r.val,
                       ok |-> r.ok, err |-> FALSE, panic |-> r.panic,
                       moved |-> r.c.head # cache.head]
    /\ UNCHANGED <<used, pc, pending, fs, lastLoad, builder, calls, server, lastRoute, fsHandler, conn, located>>

RemoveC(t, k) ==
    /\ pc[t] = "idle"
    /\ LET r == Remove(cache, k) IN
         /\ cache' = Collect(r.c)
         /\ lastOp' = [op |-> "Remove", key |-> k, item |-> NoItem, ret |-> NoItem,
                       ok |-> ~r.panic, err |-> FALSE, panic |-> r.panic,
                       moved |-> FALSE]
    /\ UNCHANGED <<used, pc, pending, fs, lastLoad, builder, calls, server, lastRoute, fsHandler, conn, located>>

NextConc ==
    \/ \E t \in Threads, k \in Keys, v \in Items : AddBegin(t, k, v)
    \/ \E t \in Threads : AddEnd(t)
    \/ \E t \in Threads, k \in Keys : GetC(t, k)
    \/ \E t \in Threads, k \in Keys : RemoveC(t, k)

SpecConc == Init /\ [][NextConc]_vars

----------------------------------------------------------------------------
(* Requests served through the cache-wrapping loader while files change *)

\* A request is served through the cache-wrapping loader
LoadFile(path, compression) ==
    /\ Len(cache.nodes) < MaxLoads
    /\ \E r \in {CacheGetFile(cache, fs, path, Resource, compression)} :
         /\ cache' = Collect(r.c)
         /\ lastLoad' = [path |-> path, compression |-> compression,
                         outcome |-> IF r.panic THEN "panic"
                                     ELSE IF r.err THEN "error"
                                     ELSE IF r.wrapped THEN "loaded" ELSE "hit",
                         stale |-> r.found # NoFile /\ r.wrapped,
                         root |-> Resource.Path]
    /\ UNCHANGED <<fs, lastOp, used, pc, pending, builder, calls, server, lastRoute, fsHandler, conn, located>>

\* Number of writes made so far, over all files
RECURSIVE Writes(_, _)
Writes(f, ps) ==
    IF ps = {} THEN 0
    ELSE LET p == CHOOSE x \in ps : TRUE IN f[p].modTime + Writes(f, ps \ {p})

\* The file is rewritten (or created) and gets a new modification time; the
\* new content is short, or longer than any cache limit
WriteFile(p, grown) ==
    /\ Writes(fs, AbsPaths) < MaxTime
    /\ fs' = [fs EXCEPT ![p] = [exists |-> TRUE, modTime |-> @.modTime + 1,
                                 readable |-> TRUE, grown |-> grown]]
    /\ UNCHANGED <<cache, lastLoad, lastOp, used, pc, pending, builder, calls, server, lastRoute, fsHandler, conn, located>>

DeleteFile(p) ==
    /\ fs[p].exists
    /\ fs' = [fs EXCEPT ![p].exists = FALSE]
    /\ UNCHANGED <<cache, lastLoad, lastOp, used, pc, pending, builder, calls, server, lastRoute, fsHandler, conn, located>>

NextLoader ==
    \/ \E p \in RequestPaths, compression \in BOOLEAN : LoadFile(p, compression)
    \/ \E p \in AbsPaths, grown \in BOOLEAN : WriteFile(p, grown)
    \/ \E p \in AbsPaths : DeleteFile(p)

SpecLoader == Init /\ [][NextLoader]_vars

----------------------------------------------------------------------------
(* Two filesystem rules with different roots are served through            *)
(* cache-wrapping loaders that share one named cache                       *)

\* The ServerResources of the two rules, and the files below their roots
SharedResources == { Resource, [Resource EXCEPT !.Path = <<"alt">>] }
SharedFiles ==
    { <<"root", "/", "t", ".css">>, <<"alt", "/", "t", ".css">>,
      <<"root", "/", "x", ".html">>, <<"alt", "/", "x", ".html">> }
SharedPaths == { <<"/", "t", ".css">>, <<"/", "t">>, <<"/">> }

InitShared ==
    /\ cache = CreateLRUCache(MaxSize)
    /\ lastOp = NoOp
    /\ used = <<>>
    /\ pc = [t \in Threads |-> "idle"]
    /\ pending = [t \in Threads |-> [key |-> "", item |-> NoItem]]
    /\ \E present \in SUBSET SharedFiles :
         fs = [p \in SharedFiles |->
                 [exists |-> p \in present, modTime |-> 0, readable |-> TRUE,
                  grown |-> FALSE]]
    /\ lastLoad = NoLoad
    /\ builder = CreateCacheBuilder
    /\ calls = <<>>
    /\ server = NoServer
    /\ lastRoute = NoRoute
    /\ fsHandler = NoHandler
    /\ conn = NoConn
    /\ located = NoLocate

\* A request matched by the rule of resource res is served through the
\* cache-wrapping loader of that rule; the cache is the shared one
SharedLoad(res, path, compression) ==
    /\ Len(cache.nodes) < MaxLoads
    /\ \E r \in {CacheGetFile(cache, fs, path, res, compression)} :
         /\ cache' = Collect(r.c)
         /\ lastLoad' = [path |-> path, compression |-> compression,
                         outcome |-> IF r.panic THEN "panic"
                                     ELSE IF r.err THEN "error"
                                     ELSE IF r.wrapped THEN "loaded" ELSE "hit",
                         stale |-> r.found # NoFile /\ r.wrapped,
                         root |-> res.Path]
    /\ UNCHANGED <<fs, lastOp, used, pc, pending, builder, calls, server, lastRoute, fsHandler, conn, located>>

NextShared ==
    \E res \in SharedResources, p \in SharedPaths, compression \in BOOLEAN :
        SharedLoad(res, p, compression)

SpecShared == InitShared /\ [][NextShared]_vars

----------------------------------------------------------------------------
(* Caches are created through the registry, as the rules of a              *)
(* configuration are turned into handlers                                  *)

\* One call of CreateCache; calls is the history of the calls and results
CreateCacheCall(name, type, limit) ==
    /\ Len(calls) < MaxCalls
    /\ \E r \in {CreateCache(builder, name, type, limit)} :
         /\ builder' = r.b
         /\ calls' = Append(calls, [name |-> name, type |-> type, limit |-> limit,
                                    cache |-> r.cache, err |-> r.err,
                                    panic |-> r.panic])
    /\ UNCHANGED <<cache, lastOp, used, pc, pending, fs, lastLoad, server, lastRoute, fsHandler, conn, located>>

NextRegistry ==
    \E name \in CacheNames, type \in CacheTypes, limit \in CacheLimits :
        CreateCacheCall(name, type, limit)

SpecRegistry == Init /\ [][NextRegistry]_vars

----------------------------------------------------------------------------
(* Requests are routed by a router built once from a configuration *)

InitRouter ==
    /\ cache = CreateLRUCache(MaxSize)
    /\ lastOp = NoOp
    /\ used = <<>>
    /\ pc = [t \in Threads |-> "idle"]
    /\ pending = [t \in Threads |-> [key |-> "", item |-> NoItem]]
    /\ fs = [p \in AbsPaths |-> [exists |-> TRUE, modTime |-> 0, readable |-> TRUE,
                 grown |-> FALSE]]
    /\ lastLoad = NoLoad
    /\ builder = CreateCacheBuilder
    /\ calls = <<>>
    /\ \E blocks \in Configs :
         server = [blocks |-> blocks, sh |-> createServerHandler(blocks)]
    /\ lastRoute = NoRoute
    /\ fsHandler = NoHandler
    /\ conn = NoConn
    /\ located = NoLocate

\* A request arrives at HostHandler.  A panic of the handler goroutine is
\* recovered by net/http, which closes the connection without a response.
\* status is the status HostHandler itself writes, 0 for none.
Route(host, path) ==
    /\ ~server.sh.panic
    /\ \E r \in {HostHandler(server.sh, host, path)} :
         lastRoute' = [host |-> host, path |-> path, mapping |-> r.mapping,
                       panic |-> r.panic, status |-> 0]
    /\ UNCHANGED <<cache, lastOp, used, pc, pending, fs, lastLoad, builder, calls,
                   server, fsHandler, conn, located>>

NextRouter ==
    \E host \in RequestHosts, path \in RouterPaths : Route(host, path)

SpecRouter == InitRouter /\ [][NextRouter]_vars

----------------------------------------------------------------------------
(* Request paths are resolved by the filesystem loader against a root in   *)
(* which any of the files may exist                                        *)

InitLocate ==
    /\ cache = CreateLRUCache(MaxSize)
    /\ lastOp = NoOp
    /\ used = <<>>
    /\ pc = [t \in Threads |-> "idle"]
    /\ pending = [t \in Threads |-> [key |-> "", item |-> NoItem]]
    /\ \E present \in SUBSET LocateFiles :
         fs = [p \in LocateFiles |->
                 [exists |-> p \in present, modTime |-> 0, readable |-> TRUE,
                 grown |-> FALSE]]
    /\ lastLoad = NoLoad
    /\ builder = CreateCacheBuilder
    /\ calls = <<>>
    /\ server = NoServer
    /\ lastRoute = NoRoute
    /\ fsHandler = NoHandler
    /\ conn = NoConn
    /\ located = NoLocate

\* One call of FileSystemLoader.GetFile; loc is what its LocateFile returned
Locate(path, compression) ==
    /\ located' = [path |-> path, compression |-> compression,
                   loc |-> LocateFile(fs, path, Resource),
                   get |-> FSGetFile(fs, path, Resource, compression)]
    /\ UNCHANGED <<cache, lastOp, used, pc, pending, fs, lastLoad, builder, calls,
                   server, lastRoute, fsHandler, conn>>

NextLocate ==
    \E path \in LocatePaths, compression \in BOOLEAN : Locate(path, compression)

SpecLocate == InitLocate /\ [][NextLocate]_vars

----------------------------------------------------------------------------
(* Requests are served by a filesystem handler.  A step is the handler's   *)
(* code from one entry of handleError to the next.                         *)

InitHandler ==
    /\ cache = CreateLRUCache(MaxSize)
    /\ lastOp = NoOp
    /\ used = <<>>
    /\ pc = [t \in Threads |-> "idle"]
    /\ pending = [t \in Threads |-> [key |-> "", item |-> NoItem]]
    /\ \E m \in 1..TicksPerSecond, readable \in BOOLEAN, page \in BOOLEAN :
         fs = [p \in HandlerFiles |->
                 [exists |-> (p # <<"root", "/", "40x", ".txt">>) \/ page,
                  modTime |-> IF p = <<"root", "/", "t", ".css">> THEN m ELSE 0,
                  readable |-> (p # <<"root", "/", "t", ".css">>) \/ readable,
                  grown |-> FALSE]]
    /\ lastLoad = NoLoad
    /\ builder = CreateCacheBuilder
    /\ calls = <<>>
    /\ server = NoServer
    /\ lastRoute = NoRoute
    /\ \E compression \in BOOLEAN, rules \in ErrorConfigs, cached \in BOOLEAN :
         fsHandler \in NewFSHandlers(HandlerResource(compression, rules), cached)
    /\ conn = NoConn
    /\ located = NoLocate

\* The connection after writeFile(w, req, fc): done, or on its way into
\* handleError with status 500
AfterWriteFile(cn, w, ims, fc, fails) ==
    Bind(writeFile(w, ims, fc, fails), LAMBDA wf :
      IF wf.panic THEN [cn EXCEPT !.pc = "done", !.w = wf.w, !.panic = TRUE,
                                  !.served = fc]
      ELSE IF wf.writeErr
      THEN [cn EXCEPT !.pc = "handleError", !.w = wf.w, !.error = 500,
                      !.useCompression = fc.Compression, !.served = fc]
      ELSE [cn EXCEPT !.pc = "done", !.w = wf.w, !.served = fc])

\* FSHandler.HandleRequest, up to its return or its entry of handleError
HandleRequest(path, ims, accept, fails) ==
    /\ conn.pc = "idle"
    /\ fsHandler.cached => Len(cache.nodes) < MaxLoads
    /\ LET useCompression == shouldUseCompression(fsHandler, accept)
           cn == [NoConn EXCEPT !.Path = path, !.reqPath = path, !.ims = ims,
                                !.reqIms = ims, !.accept = accept, !.fails = fails,
                                !.useCompression = useCompression]
       IN \E g \in {AccessorGetFile(fsHandler, cache, fs, path, useCompression)} :
            /\ cache' = Collect(g.c)
            /\ conn' = IF g.panic THEN [cn EXCEPT !.pc = "done", !.panic = TRUE]
                       ELSE IF ~g.err
                       THEN AfterWriteFile(cn, NewResponse, ims, g.fc, fails)
                       ELSE [cn EXCEPT !.pc = "handleError", !.error = 404]
    /\ UNCHANGED <<lastOp, used, pc, pending, fs, lastLoad, builder, calls, server,
                   lastRoute, fsHandler, located>>

\* FSHandler.handleError, up to its return or its next entry through writeFile
HandleError ==
    /\ conn.pc = "handleError"
    /\ conn.entries < MaxErrorDepth
    /\ LET errorFile == findErrorFile(fsHandler.ErrorMappings, conn.error)
           cn == [conn EXCEPT !.entries = @ + 1, !.ims = NoHeader]
       IN IF errorFile # <<>>
          THEN \E g \in {AccessorGetFile(fsHandler, cache, fs, errorFile,
                                         conn.useCompression)} :
                 /\ cache' = Collect(g.c)
                 /\ conn' = IF g.panic
                            THEN [cn EXCEPT !.pc = "done", !.Path = errorFile,
                                            !.panic = TRUE]
                            ELSE IF ~g.err
                            THEN AfterWriteFile([cn EXCEPT !.Path = errorFile], conn.w,
                                                NoHeader, g.fc, conn.fails)
                            ELSE [cn EXCEPT !.pc = "done", !.Path = errorFile,
                                            !.w = WriteHeader(@, conn.error)]
          ELSE /\ cache' = cache
               /\ conn' = [cn EXCEPT !.pc = "done", !.w = WriteHeader(@, conn.error)]
    /\ UNCHANGED <<lastOp, used, pc, pending, fs, lastLoad, builder, calls, server,
                   lastRoute, fsHandler, located>>

\* The handler has returned: the response is complete and the next request
\* gets a new request object and a new ResponseWriter
Finish ==
    /\ conn.pc = "done"
    /\ conn' = NoConn
    /\ UNCHANGED <<cache, lastOp, used, pc, pending, fs, lastLoad, builder, calls,
                   server, lastRoute, fsHandler, located>>

NextHandler ==
    \/ \E path \in HandlerPaths, ims \in HeaderValues, accept \in AcceptEncodings,
          fails \in BOOLEAN : HandleRequest(path, ims, accept, fails)
    \/ HandleError
    \/ Finish

SpecHandler == InitHandler /\ [][NextHandler]_vars

----------------------------------------------------------------------------
(* Requests are served by an HTTP socket handler, which embeds the         *)
(* filesystem handler and uses its error path                              *)

InitHttp ==
    /\ cache = CreateLRUCache(MaxSize)
    /\ lastOp = NoOp
    /\ used = <<>>
    /\ pc = [t \in Threads |-> "idle"]
    /\ pending = [t \in Threads |-> [key |-> "", item |-> NoItem]]
    /\ \E present \in SUBSET HttpFiles :
         fs = [p \in HttpFiles |->
                 [exists |-> p \in present, modTime |-> 0, readable |-> TRUE,
                 grown |-> FALSE]]
    /\ lastLoad = NoLoad
    /\ builder = CreateCacheBuilder
    /\ calls = <<>>
    /\ server = NoServer
    /\ lastRoute = NoRoute
    /\ \E compression \in BOOLEAN, rules \in ErrorConfigs :
         fsHandler \in NewFSHandlers(HttpResource(compression, rules), FALSE)
    /\ conn = NoConn
    /\ located = NoLocate

\* HttpHandler.HandleRequest, up to its return or its entry of handleError
HttpHandleRequest(path, accept, fails, up) ==
    /\ conn.pc = "idle"
    /\ LET useCompression == shouldUseCompression(fsHandler, accept)
           cn == [NoConn EXCEPT !.Path = path, !.reqPath = path, !.accept = accept,
                                !.fails = fails, !.useCompression = useCompression,
                                !.upstream = up]
       IN \E hs \in {HandleSocket(NewResponse, up, fails)} :
            conn' = IF ~hs.returned
                    THEN [cn EXCEPT !.pc = "writeToResponse", !.w = hs.w]
                    ELSE IF hs.status \notin {200, 304}
                    THEN [cn EXCEPT !.pc = "handleError", !.w = hs.w,
                                    !.error = hs.status]
                    ELSE [cn EXCEPT !.pc = "done", !.w = hs.w]
    /\ UNCHANGED <<cache, lastOp, used, pc, pending, fs, lastLoad, builder, calls,
                   server, lastRoute, fsHandler, located>>

NextHttp ==
    \/ \E path \in HttpPaths, accept \in AcceptEncodings, fails \in BOOLEAN,
          up \in Upstreams : HttpHandleRequest(path, accept, fails, up)
    \/ HandleError
    \/ Finish

SpecHttp == InitHttp /\ [][NextHttp]_vars

----------------------------------------------------------------------------
(* The body of one upstream response is streamed to the client, one pass   *)
(* of the loop of writeToResponse at a time                                *)

InitStream ==
    /\ cache = CreateLRUCache(MaxSize)
    /\ lastOp = NoOp
    /\ used = <<>>
    /\ pc = [t \in Threads |-> "idle"]
    /\ pending = [t \in Threads |-> [key |-> "", item |-> NoItem]]
    /\ fs = [p \in HttpFiles |->
               [exists |-> FALSE, modTime |-> 0, readable |-> TRUE, grown |-> FALSE]]
    /\ lastLoad = NoLoad
    /\ builder = CreateCacheBuilder
    /\ calls = <<>>
    /\ server = NoServer
    /\ lastRoute = NoRoute
    /\ fsHandler \in NewFSHandlers(HttpResource(FALSE, <<>>), FALSE)
    /\ conn = NoConn
    /\ located = NoLocate

\* HandleSocket from its WriteHeader to the return of writeBody or the entry
\* of the loop of writeToResponse
WriteBody(up, fails) ==
    /\ conn.pc = "idle"
    /\ LET w1 == CopyHeader(WriteHeader(NewResponse, up.status), up.header,
                            DOMAIN up.header)
           st == writeBody(w1, up)
       IN conn' = [NoConn EXCEPT
                     !.pc = IF st.ret # "" THEN "returned" ELSE "writeToResponse",
                     !.upstream = up, !.fails = fails, !.w = st.w,
                     !.resp = st.resp, !.ret = st.ret]
    /\ UNCHANGED <<cache, lastOp, used, pc, pending, fs, lastLoad, builder, calls,
                   server, lastRoute, fsHandler, located>>

\* One pass of the loop of writeToResponse; pass is the parity of the number
\* of passes made
WriteToResponsePass ==
    /\ conn.pc = "writeToResponse"
    /\ LET st == Iteration(Streaming(conn.w, conn.resp, conn.ret), conn.fails)
       IN conn' = [conn EXCEPT
                     !.pc = IF st.ret # "" THEN "returned" ELSE "writeToResponse",
                     !.w = st.w, !.resp = st.resp, !.ret = st.ret,
                     !.pass = (@ + 1) % 2]
    /\ UNCHANGED <<cache, lastOp, used, pc, pending, fs, lastLoad, builder, calls,
                   server, lastRoute, fsHandler, located>>

\* writeBody has returned and the connection takes its next request
StreamReturn ==
    /\ conn.pc = "returned"
    /\ conn' = NoConn
    /\ UNCHANGED <<cache, lastOp, used, pc, pending, fs, lastLoad, builder, calls,
                   server, lastRoute, fsHandler, located>>

NextStream ==
    \/ \E up \in Responses({200}, {<<>>}, Readers), fails \in BOOLEAN :
          WriteBody(up, fails)
    \/ WriteToResponsePass
    \/ StreamReturn

SpecStream == InitStream /\ [][NextStream]_vars

\* The goroutine that serves the request keeps running: a pass of the loop
\* that can be taken is taken
SpecStreamFair == SpecStream /\ WF_vars(WriteToResponsePass)

----------------------------------------------------------------------------
(* Properties of the LRU cache *)

Range(s) == {s[i] : i \in 1..Len(s)}

\* Number of list nodes, reached from head, that carry key k
NodesFor(c, k) == Cardinality({i \in 1..Len(Chain(c)) : c.nodes[Chain(c)[i]].key = k})

\* The longest prefix of the key sequence u whose entries fit into room bytes
RECURSIVE FitPrefix(_, _, _)
FitPrefix(c, u, room) ==
    IF u = <<>> THEN <<>>
    ELSE LET s == Size(c.nodes[c.keyValMap[Head(u)]].cacheItem)
         IN IF s <= room THEN <<Head(u)>> \o FitPrefix(c, Tail(u), room - s)
            ELSE <<>>

\* C1: after any sequence of Add, Get and Remove the tracked byte total
\* curSize equals the sum of Size() of the stored entries, and curSize <= maxSize.
C1_CurSizeIsStoredBytes ==
    /\ cache.curSize = StoredBytes(cache)
    /\ cache.curSize <= cache.maxSize

\* C2: after every completed Add the sum of the sizes of all entries held in
\* the cache is at most the limit.
C2_StoredBytesWithinLimit ==
    (lastOp.op = "Add" /\ ~lastOp.panic) => StoredBytes(cache) <= cache.maxSize

\* C3: the keys of the map are the keys of the nodes reachable from head, each
\* key sits on exactly one list node, and that node is the one the map holds.
C3_MapMatchesList ==
    /\ DOMAIN cache.keyValMap = Range(ChainKeys(cache))
    /\ \A k \in DOMAIN cache.keyValMap :
          /\ NodesFor(cache, k) = 1
          /\ cache.keyValMap[k] \in Range(Chain(cache))

\* C4: Add of an item larger than maxSize returns the error and leaves the
\* cache as it was, an entry stored under the same key included.
C4_OversizeAddChangesNothing ==
    [][(lastOp'.op = "Add" /\ Size(lastOp'.item) > cache.maxSize)
         => (lastOp'.err /\ cache' = cache)]_vars

\* C6: a successful Add keeps, of the entries stored before, the most recently
\* used ones that fit beside the new item and evicts the rest, least recently
\* used first; an item of size maxSize is accepted by an empty cache.
C6_EvictsLeastRecentlyUsed ==
    [][lastOp'.op = "Add" =>
         /\ lastOp'.ok =>
              DOMAIN cache'.keyValMap =
                 {lastOp'.key} \cup
                 Range(FitPrefix(cache, Without(used, lastOp'.key),
                                 cache.maxSize - Size(lastOp'.item)))
         /\ (Size(lastOp'.item) = cache.maxSize /\ DOMAIN cache.keyValMap = {})
              => (lastOp'.ok /\ DOMAIN cache'.keyValMap = {lastOp'.key})]_vars

\* C7: after a successful Add(k, v) a Get(k) returns v, and when the Add
\* replaced an entry of k the cache holds one entry for k and the byte total
\* counts the new size in place of the old one.
C7_AddThenGetAndReplace ==
    [][(lastOp'.op = "Add" /\ lastOp'.ok) =>
         /\ Get(cache', lastOp'.key).ok
         /\ Get(cache', lastOp'.key).val = lastOp'.item
         /\ (lastOp'.key \in DOMAIN cache.keyValMap
               /\ DOMAIN cache'.keyValMap = DOMAIN cache.keyValMap) =>
              /\ NodesFor(cache', lastOp'.key) = 1
              /\ cache'.curSize =
                   cache.curSize
                     - Size(cache.nodes[cache.keyValMap[lastOp'.key]].cacheItem)
                     + Size(lastOp'.item)]_vars

\* C8: when Get returns a hit the node of the entry is the head and the other
\* nodes keep their relative order.
C8_GetHitMovesToHead ==
    [][(lastOp'.op = "Get" /\ lastOp'.ok) =>
         /\ cache'.head = cache.keyValMap[lastOp'.key]
         /\ Without(Chain(cache'), cache.keyValMap[lastOp'.key])
              = Without(Chain(cache), cache.keyValMap[lastOp'.key])]_vars

\* A Get hit on the last of three listed nodes has moved it to the head
C8_Witness ==
    /\ lastOp.op = "Get" /\ lastOp.ok /\ lastOp.moved
    /\ Len(Chain(cache)) = 3
    /\ cache.head = cache.keyValMap[lastOp.key]

\* C9: Remove of a present key deletes exactly that entry (a later Get misses,
\* the byte total drops by its size, the other entries keep values and order);
\* Remove of an absent key changes nothing.
C9_RemoveDeletesExactlyOne ==
    [][lastOp'.op = "Remove" =>
         /\ ~lastOp'.panic
         /\ IF lastOp'.key \in DOMAIN cache.keyValMap
            THEN LET n == cache.keyValMap[lastOp'.key] IN
                 /\ ~Get(cache', lastOp'.key).ok
                 /\ cache'.curSize = cache.curSize - Size(cache.nodes[n].cacheItem)
                 /\ cache'.keyValMap = MapDelete(cache.keyValMap, lastOp'.key)
                 /\ \A k \in DOMAIN cache'.keyValMap :
                      cache'.nodes[cache'.keyValMap[k]].cacheItem
                        = cache.nodes[cache.keyValMap[k]].cacheItem
                 /\ Chain(cache') = Without(Chain(cache), n)
            ELSE cache' = cache]_vars

\* C5: with several threads every operation is atomic, so concurrent Adds of
\* one key leave one map entry and one list node for that key.
C5_OneNodePerKey ==
    \A k \in Keys :
        NodesFor(cache, k) = IF k \in DOMAIN cache.keyValMap THEN 1 ELSE 0

\* C29: Get on a key that is not present changes nothing in the cache (map,
\* list order, head, tail, byte total), and Get on the key already at the head
\* returns the hit without changing the list.
C29_GetMissAndHeadHitChangeNothing ==
    [][lastOp'.op = "Get" =>
         /\ lastOp'.key \notin DOMAIN cache.keyValMap =>
               (~lastOp'.ok /\ ~lastOp'.panic /\ cache' = cache)
         /\ (lastOp'.key \in DOMAIN cache.keyValMap
               /\ cache.keyValMap[lastOp'.key] = cache.head) =>
               /\ lastOp'.ok /\ ~lastOp'.panic
               /\ lastOp'.ret = cache.nodes[cache.head].cacheItem
               /\ cache' = cache]_vars

\* A Get hit on the head of a list of three nodes has left the list as it was
C29_Witness ==
    /\ lastOp.op = "Get" /\ lastOp.ok /\ ~lastOp.moved
    /\ Len(Chain(cache)) = 3
    /\ cache.head = cache.keyValMap[lastOp.key]
    /\ lastOp.ret = cache.nodes[cache.head].cacheItem

\* C28: the cache is empty if and only if head and tail are both nil: removing
\* (or evicting) the only node leaves head = tail = nil, and a non-empty cache
\* has both set.
C28_EmptyIffHeadTailNil ==
    /\ (DOMAIN cache.keyValMap = {}) <=> (cache.head = Nil /\ cache.tail = Nil)
    /\ (DOMAIN cache.keyValMap # {}) => (cache.head # Nil /\ cache.tail # Nil)

\* C34: after any sequence of Add, Get and Remove the linked list is well
\* formed: head.prev is nil, tail.next is nil, tail is the node reached by
\* following next from head to the end, and every operation completes without
\* dereferencing a missing neighbour; also after a Get that hits the tail node.
C34_ListWellFormed ==
    /\ ~lastOp.panic
    /\ cache.head # Nil => cache.nodes[cache.head].prev = Nil
    /\ cache.tail # Nil => cache.nodes[cache.tail].next = Nil
    /\ cache.tail = IF Chain(cache) = <<>> THEN Nil
                    ELSE Chain(cache)[Len(Chain(cache))]

----------------------------------------------------------------------------
(* Properties of the cache registry *)

\* The call returned a cache
Successful(call) == call.cache # Nil /\ ~call.panic /\ ~call.err

\* C13: two successful CreateCache calls return the same instance if and only
\* if both were given the same non-empty name; a call with a registered name
\* returns the existing instance, which keeps the limit it was created with.
C13_SharedByName ==
    /\ \A i \in 1..Len(calls), j \in 1..Len(calls) :
          (i < j /\ Successful(calls[i]) /\ Successful(calls[j])) =>
             ((calls[i].cache = calls[j].cache)
                <=> (calls[i].name = calls[j].name /\ calls[i].name # ""))
    /\ \A i \in 1..Len(calls) :
          (Successful(calls[i])
             /\ \A j \in 1..(i - 1) :
                  Successful(calls[j]) => calls[j].cache # calls[i].cache) =>
             builder.instances[calls[i].cache].maxSize = calls[i].limit

\* A registered name was asked for again with another algorithm and limit and
\* the first instance came back; two calls without a name gave two instances
C13_Witness ==
    /\ Len(calls) = 3
    /\ Successful(calls[1]) /\ Successful(calls[2]) /\ Successful(calls[3])
    /\ calls[1].name = "A" /\ calls[2].name = "A"
    /\ calls[2].type # LRUCache /\ calls[2].limit # calls[1].limit
    /\ calls[2].cache = calls[1].cache
    /\ calls[3].name = "" /\ calls[3].cache # calls[1].cache

\* C14: CreateCache returns no cache and an error value, and does not abort,
\* when limit <= 0, when the algorithm is empty and when it is not "lru".
C14_BadArgumentsGiveError ==
    \A i \in 1..Len(calls) :
        (calls[i].limit <= 0 \/ calls[i].type # LRUCache) =>
            (calls[i].cache = Nil /\ calls[i].err /\ ~calls[i].panic)

----------------------------------------------------------------------------
(* Properties of the router *)

\* The host without a ":port" suffix
WithoutPort(host) ==
    IF Len(host) >= 2 /\ host[Len(host) - 1] = ":" /\ host[Len(host)] = "80"
    THEN SubSeq(host, 1, Len(host) - 2)
    ELSE host

\* The blocks of the configuration that list the hostname
BlocksListing(blocks, name) ==
    {bi \in 1..Len(blocks) :
        \E i \in 1..Len(blocks[bi].Hosts) : blocks[bi].Hosts[i].Host = name}

\* The rules of block bi, in declaration order, whose regex matches the path
MatchingRules(blocks, bi, path) ==
    {ri \in 1..Len(blocks[bi].Content) :
        MatchString(blocks[bi].Content[ri].Match, path)}

\* The block whose rule list serves the host: the (last) block that registers
\* the hostname, else the block flagged as default
BlockFor(blocks, host) ==
    LET name == WithoutPort(host)
        listing == BlocksListing(blocks, name)
        flagged == {bi \in 1..Len(blocks) : blocks[bi].Default}
    IN IF listing # {} THEN CHOOSE bi \in listing : \A bj \in listing : bj <= bi
       ELSE IF Cardinality(flagged) = 1 THEN CHOOSE bi \in flagged : TRUE
       ELSE 0

\* C15: the router removes a ":port" suffix from the Host header, takes the
\* rule list registered for that hostname, or the default block's list when
\* the hostname is not registered, and dispatches to the first rule of that
\* list, in declaration order, whose regex matches the URL path.
C15_FirstMatchOfHostRules ==
    LET bi == BlockFor(server.blocks, lastRoute.host)
        matching == MatchingRules(server.blocks, bi, lastRoute.path)
    IN (lastRoute # NoRoute /\ bi # 0 /\ matching # {}) =>
          lastRoute.mapping.rule =
             <<bi, CHOOSE ri \in matching : \A rj \in matching : ri <= rj>>

\* C16: a request whose path matches no rule of the selected rule list is
\* answered with status 404, and handling it raises no panic.
C16_NoMatchIs404 ==
    (lastRoute # NoRoute /\ lastRoute.mapping = NoMapping) =>
        (lastRoute.status = 404 /\ ~lastRoute.panic)

\* The handler function that belongs to a rule type
HandlerNamed(type) ==
    IF type = HttpSocket THEN "HandlerHttpSocket"
    ELSE IF type = UnixSocket THEN "HandlerUnixSocket"
    ELSE "HandlerFS"

\* C31: a rule of type http_socket is dispatched to the HTTP socket handler, a
\* rule of type unix_socket to the unix-socket handler, a rule of type
\* file_system to the filesystem handler, and any other type aborts router
\* construction.
C31_DispatchByType ==
    /\ (\E bi \in 1..Len(server.blocks) : \E ri \in 1..Len(server.blocks[bi].Content) :
          server.blocks[bi].Content[ri].Type \notin {FileSystem, UnixSocket, HttpSocket})
         => server.sh.panic
    /\ \A h \in DOMAIN server.sh.HostMappings :
          \A i \in 1..Len(server.sh.HostMappings[h]) :
             LET m == server.sh.HostMappings[h][i] IN
             m.Handler = HandlerNamed(server.blocks[m.rule[1]].Content[m.rule[2]].Type)
    /\ (lastRoute # NoRoute /\ lastRoute.mapping # NoMapping) =>
          lastRoute.mapping.Handler =
             HandlerNamed(server.blocks[lastRoute.mapping.rule[1]]
                             .Content[lastRoute.mapping.rule[2]].Type)

\* A request was dispatched to the unix-socket handler by a unix_socket rule of
\* a configuration that also has an http_socket rule
C31_Witness ==
    /\ lastRoute # NoRoute /\ lastRoute.mapping # NoMapping
    /\ lastRoute.mapping.Handler = "HandlerUnixSocket"
    /\ server.blocks[lastRoute.mapping.rule[1]].Content[lastRoute.mapping.rule[2]].Type
          = UnixSocket
    /\ \E bi \in 1..Len(server.blocks) : \E ri \in 1..Len(server.blocks[bi].Content) :
          server.blocks[bi].Content[ri].Type = HttpSocket

\* C30: building the router from a configuration in which no block is flagged
\* as default, or in which the default block lists no host, fails at startup
\* instead of producing a router with some other block as the fallback.
C30_NoDefaultBlockIsFatal ==
    LET flagged == {bi \in 1..Len(server.blocks) : server.blocks[bi].Default}
    IN (/\ server # NoServer
        /\ \/ flagged = {}
           \/ /\ Cardinality(flagged) = 1
              /\ \A bi \in flagged : Len(server.blocks[bi].Hosts) = 0) =>
          server.sh.panic

\* The patterns, handlers and contexts of a rule list, in order
Rules(mappings) ==
    [i \in 1..Len(mappings) |->
       [Pattern |-> mappings[i].Pattern, Handler |-> mappings[i].Handler,
        Context |-> mappings[i].Context]]

\* C38: the router's default rule list is the rule list built from the block
\* flagged Default, also when another block lists the same hostname as the
\* default block's first host.
C38_DefaultListOfFlaggedBlock ==
    LET flagged == {bi \in 1..Len(server.blocks) : server.blocks[bi].Default}
    IN (server # NoServer /\ ~server.sh.panic /\ Cardinality(flagged) = 1) =>
          \A d \in flagged :
             Rules(server.sh.DefaultMappings) = Rules(PathMappingsOf(server.blocks, d))

\* C39: each rule built by the router hands its handler the ServerResource of
\* that same rule, for every rule of a block that declares several resources
\* and not only for the last one declared.
C39_ContextOfOwnResource ==
    /\ \A h \in DOMAIN server.sh.HostMappings :
          \A i \in 1..Len(server.sh.HostMappings[h]) :
             LET m == server.sh.HostMappings[h][i] IN
             m.Context.Resource = server.blocks[m.rule[1]].Content[m.rule[2]]
    /\ (lastRoute # NoRoute /\ lastRoute.mapping # NoMapping) =>
          lastRoute.mapping.Context.Resource =
             server.blocks[lastRoute.mapping.rule[1]].Content[lastRoute.mapping.rule[2]]

----------------------------------------------------------------------------
(* Properties of the filesystem handler *)

\* The first error rule, in the order the configuration declares them, whose
\* regex matches the status text; <<>> when none matches
RECURSIVE FirstDeclared(_, _)
FirstDeclared(rules, error) ==
    IF rules = <<>> THEN <<>>
    ELSE IF MatchString(Head(rules).Match, Itoa(error)) THEN Head(rules).Path
    ELSE FirstDeclared(Tail(rules), error)

\* The file at root + path exists and can be read
Loadable(f, root, path) ==
    /\ root \o path \in DOMAIN f
    /\ f[root \o path].exists
    /\ f[root \o path].readable

\* C17: the error path serves the file of the first error rule, in the order
\* the rules are declared, whose regex matches the decimal status text, as a
\* normal 200 file response; the choice is the same on every run.
C17_FirstDeclaredErrorRule ==
    [][(conn.pc = "handleError" /\ conn'.entries = conn.entries + 1
          /\ FirstDeclared(fsHandler.Resource.Error, conn.error) # <<>>) =>
         LET page == FirstDeclared(fsHandler.Resource.Error, conn.error) IN
         /\ conn'.Path = page
         /\ (Loadable(fs, fsHandler.Resource.Path, page) /\ conn.w.status = 0
               /\ ~conn.fails /\ ~conn'.panic) =>
              /\ conn'.w.status = 200
              /\ conn'.served.AbsolutePath = fsHandler.Resource.Path \o page
              /\ conn'.w.body = <<conn'.served.Data>>]_vars

\* C18: for one request the error path runs at most once, also when loading
\* or writing the error page fails.
C18_ErrorPathRunsOnce ==
    conn.entries <= 1

\* C19: a request whose path cannot be resolved enters the error path with
\* status 404, one whose file is resolved but cannot be read with status 500.
C19_LoadErrorStatus ==
    (conn.pc = "handleError" /\ conn.entries = 0 /\ conn.served = NoFile) =>
        conn.error =
           IF LocateFile(fs, conn.reqPath, fsHandler.Resource).fileInfo = NoFileInfo
           THEN 404 ELSE 500

\* The header value is a date, in one of the three layouts, that names the
\* second of the time t
NamesSecondOf(ims, t) ==
    /\ ims.layout \in {"RFC1123", "ANSIC", "RFC850"}
    /\ ims.sec * TicksPerSecond = Truncate(t)

\* C20: the handler answers 304 with an empty body if and only if the request
\* carries an If-Modified-Since value whose timestamp equals the served file's
\* modification time truncated to seconds; in every other case (header absent,
\* unparseable or different) it answers with the file body and a Last-Modified
\* header, which names the second of the modification time.
C20_NotModifiedIffSameSecond ==
    (conn.pc # "idle" /\ conn.entries = 0 /\ conn.served # NoFile /\ ~conn.fails) =>
        /\ ~conn.panic
        /\ IF NamesSecondOf(conn.reqIms, conn.served.FileInfo.modTime)
           THEN conn.w.status = 304 /\ conn.w.body = <<>>
           ELSE /\ conn.w.status = 200
                /\ conn.w.body = <<conn.served.Data>>
                /\ "Last-Modified" \in DOMAIN conn.w.header
                /\ NamesSecondOf(conn.w.header["Last-Modified"],
                                 conn.served.FileInfo.modTime)

\* The response is a file response: status 200 and the bytes of the served file
FileResponse(cn) ==
    /\ cn.pc = "done" /\ ~cn.panic
    /\ cn.served # NoFile
    /\ cn.w.status = 200
    /\ cn.w.body = <<cn.served.Data>>

\* C21: a file response carries Content-Encoding: gzip and gzip-encoded bytes
\* if and only if the resource has compression enabled, the request's
\* Accept-Encoding contains "gzip" and the file's MIME type begins with "text";
\* for a non-text MIME the entry has ignoreCompression set and the bytes are
\* not compressed, with or without the cache in the chain.
C21_GzipIffNegotiatedText ==
    FileResponse(conn) =>
        LET text == MimeTextBased(getContentTypeHeader(conn.served.FileInfo))
            negotiated == /\ fsHandler.Resource.Compression
                          /\ \E i \in 1..Len(conn.accept) : conn.accept[i] = "gzip"
            encoded == /\ "Content-Encoding" \in DOMAIN conn.w.header
                       /\ conn.w.header["Content-Encoding"] = "gzip"
        IN /\ encoded <=> (negotiated /\ text)
           /\ conn.w.body[1].gzip <=> (negotiated /\ text)
           /\ ~text => (conn.served.IgnoreCompression /\ ~conn.w.body[1].gzip)

\* The error path, entered with this status, finds no error rule or cannot load
\* the error page of the rule it finds
NoErrorPage(h, c, f, cn) ==
    LET errorFile == findErrorFile(h.ErrorMappings, cn.error)
    IN \/ errorFile = <<>>
       \/ LET g == AccessorGetFile(h, c, f, errorFile, cn.useCompression)
          IN g.err /\ ~g.panic

\* C26: when no error rule matches the status, or the mapped error page cannot
\* be loaded, the response is exactly the original status code and no body.
C26_BareStatus ==
    [][(conn.pc = "handleError" /\ conn'.entries = conn.entries + 1
          /\ NoErrorPage(fsHandler, cache, fs, conn)) =>
         /\ conn'.pc = "done"
         /\ conn'.w.status = conn.error
         /\ conn'.w.body = <<>>]_vars

\* C37: a request whose If-Modified-Since value is shorter than four
\* characters, or does not parse in the format selected by its fourth
\* character, is treated as modified (the file is served normally) and its
\* handling completes without a runtime failure.
C37_BadDateIsModified ==
    (/\ conn.pc \in {"done", "handleError"}
     /\ conn.entries = 0
     /\ conn.reqIms.layout = "none"
     /\ conn.served # NoFile) =>
        /\ ~conn.panic
        /\ conn.w.status = 200
        /\ ~conn.fails => conn.w.body = <<conn.served.Data>>

----------------------------------------------------------------------------
(* Properties of the HTTP socket handler *)

\* C23: the HTTP socket handler passes to its error path the upstream status
\* whenever that status is neither 200 nor 304, and status 500 whenever the
\* upstream request cannot be created or performed; in both cases no status,
\* header or body byte has been written to the client before the error path
\* runs.
C23_UpstreamErrorToErrorPath ==
    (/\ conn.upstream # NoUpstream
     /\ conn.entries = 0
     /\ \/ conn.upstream.kind # "response"
        \/ conn.upstream.status \notin {200, 304}) =>
        /\ conn.pc = "handleError"
        /\ conn.error = IF conn.upstream.kind = "response" THEN conn.upstream.status
                        ELSE 500
        /\ conn.w = NewResponse

\* An upstream 503 with headers and a body is on its way into the error path
C23_Witness ==
    /\ conn.pc = "handleError" /\ conn.entries = 0
    /\ conn.upstream.kind = "response" /\ conn.upstream.status = 503
    /\ conn.upstream.header # <<>> /\ conn.upstream.body.chunks # <<>>
    /\ conn.error = 503

\* C24: within one request every response header is set before the status
\* line is written and before any body byte is written; the HTTP socket
\* handler has copied the upstream headers into the response by the time it
\* writes the upstream status.
C24_HeadersBeforeStatus ==
    conn.w.status # 0 => conn.w.sent = conn.w.header

\* s is an initial part of t
IsPrefix(s, t) == Len(s) <= Len(t) /\ SubSeq(t, 1, Len(s)) = s

\* C32: the bytes the HTTP socket handler writes to the client are exactly the
\* upstream body bytes, in order: when the length is unknown the one byte read
\* in advance is re-inserted once, at the front, and no byte is lost or
\* duplicated, whatever chunk sizes the upstream reads return (including a read
\* that returns data together with end-of-stream).
C32_BodyBytesExact ==
    (conn.upstream # NoUpstream /\ ~conn.fails) =>
        LET written == Flatten(conn.w.body)
            sent == Flatten(conn.upstream.body.chunks)
        IN /\ IsPrefix(written, sent)
           /\ conn.pc = "returned" => written = sent

\* C33: the body-streaming loop of the HTTP socket handler terminates for every
\* upstream reader: a reader that keeps returning zero bytes without an error
\* does not make the loop run forever.
C33_LoopTerminates == (conn.pc = "writeToResponse") ~> (conn.pc = "returned")

\* C36: for every request the response status is written at most once and
\* never after body bytes have been written: after a failed body write, or
\* after an upstream read error in the middle of streaming, no second status
\* and no error page is appended to a response that has already begun.
C36_StatusOnceAndFirst ==
    /\ [](Len(conn.w.calls) <= 1)
    /\ [](conn.w.calls # <<>> => conn.w.status = conn.w.calls[1])
    /\ [][(conn.pc = "handleError" /\ conn.w.status # 0) => conn'.w = conn.w]_vars

----------------------------------------------------------------------------
(* Properties of the filesystem loader *)

\* The paths that path resolution tries for a request path, in order
Candidates(res, requestPath) ==
    IF requestPath[Len(requestPath)] = "/"
    THEN [i \in 1..Len(res.FSDefaults.DefaultFiles) |->
            res.Path \o requestPath \o res.FSDefaults.DefaultFiles[i]]
    ELSE IF ~ContainsDot(requestPath)
    THEN [i \in 1..Len(res.FSDefaults.DefaultExtensions) |->
            res.Path \o requestPath \o res.FSDefaults.DefaultExtensions[i]]
    ELSE << res.Path \o requestPath >>

\* C22: path resolution of root + requestPath picks, for a request path ending
\* in "/", the first entry of defaultFiles whose appended path exists; for a
\* request path without ".", the first entry of defaultExtensions whose
\* appended path exists; otherwise the concatenated path itself; when no
\* candidate exists the loader returns the error, without falling back to the
\* verbatim path.
C22_FirstExistingCandidate ==
    located # NoLocate =>
        LET cands == Candidates(Resource, located.path)
            existing == {i \in 1..Len(cands) : cands[i] \in DOMAIN fs /\ fs[cands[i]].exists}
        IN IF existing = {}
           THEN located.get.err /\ located.loc.fileInfo = NoFileInfo
           ELSE LET first == CHOOSE i \in existing : \A j \in existing : i <= j IN
                /\ ~located.get.err
                /\ located.loc.path = cands[first]
                /\ located.get.fc.AbsolutePath = cands[first]
                /\ located.get.fc.FileInfo.name = cands[first]

\* An extension-less request is resolved to the second default extension while
\* the file of the verbatim path exists; another one finds no candidate, while
\* the verbatim path exists, and gets the error
C22_Witness ==
    /\ located # NoLocate
    /\ located.path = <<"/", "t">>
    /\ fs[<<"root", "/", "t">>].exists
    /\ ~fs[<<"root", "/", "t", ".html">>].exists
    /\ fs[<<"root", "/", "t", ".css">>].exists
    /\ located.get.fc.AbsolutePath = <<"root", "/", "t", ".css">>

----------------------------------------------------------------------------
(* Properties of the cache-wrapping loader *)

\* The entry's modification-time snapshot is the file's current one
Fresh(f, fc) ==
    /\ Stat(f, fc.AbsolutePath) # NoFileInfo
    /\ Stat(f, fc.AbsolutePath).modTime = fc.FileInfo.modTime

\* The keys under which the cache holds the entry fc
KeysHolding(c, fc) ==
    {k \in DOMAIN c.keyValMap : c.nodes[c.keyValMap[k]].cacheItem = fc}

\* C10: the loader never returns a cached entry whose modification-time
\* snapshot differs from the file's current modification time; when the lookup
\* hits such an entry, or one whose file cannot be stat'ed, that entry is
\* removed from the cache, under whichever key it was found, and the inner
\* loader is invoked.
C10_StaleEntryRemoved ==
    [][fs' = fs =>
         LET r == CacheGetFile(cache, fs, lastLoad'.path, Resource,
                               lastLoad'.compression)
         IN /\ (r.fc # NoFile /\ ~r.wrapped) => Fresh(fs, r.fc)
            /\ (r.found # NoFile /\ ~Fresh(fs, r.found) /\ ~r.panic) =>
                 /\ r.wrapped
                 /\ KeysHolding(cache', r.found) = {}]_vars

\* The key the entry fc belongs under when entries are keyed by resolved path
AbsoluteKey(fc) ==
    IF fc.Compression THEN fc.AbsolutePath \o CompressionSuffix ELSE fc.AbsolutePath

\* The entry the cache holds under key k
EntryAt(c, k) == c.nodes[c.keyValMap[k]].cacheItem

\* C11: the cache-wrapping loader stores and looks up entries under the
\* resolved absolute file path (with "gzip" appended for compressed content),
\* not under the request path.
C11_KeyedByAbsolutePath ==
    [][fs' = fs =>
         LET r == CacheGetFile(cache, fs, lastLoad'.path, Resource,
                               lastLoad'.compression)
         IN /\ (r.wrapped /\ r.fc # NoFile /\ ~r.panic) =>
                 \A k \in KeysHolding(cache', r.fc) : k = AbsoluteKey(r.fc)
            /\ (r.found # NoFile) => r.foundKey = AbsoluteKey(r.found)]_vars

\* C12: a lookup for a request that asked for compression returns a cached
\* entry only if the entry is compressed or has ignoreCompression set, and it
\* leaves a fresh uncompressed text entry of the request path in the cache for
\* the requests that did not ask for compression.
C12_CompressedLookup ==
    [][(fs' = fs /\ lastLoad'.compression) =>
         LET r == CacheGetFile(cache, fs, lastLoad'.path, Resource, TRUE)
             p == lastLoad'.path
         IN /\ (r.fc # NoFile /\ ~r.wrapped) =>
                 (r.fc.Compression \/ r.fc.IgnoreCompression)
            /\ (/\ p \in DOMAIN cache.keyValMap
                /\ ~EntryAt(cache, p).Compression
                /\ ~EntryAt(cache, p).IgnoreCompression
                /\ Fresh(fs, EntryAt(cache, p))) =>
                 /\ p \in DOMAIN cache'.keyValMap
                 /\ EntryAt(cache', p) = EntryAt(cache, p)]_vars

\* The entries of the cache: its keys and the value held under each
Content(c) == [k \in DOMAIN c.keyValMap |-> EntryAt(c, k)]

\* C25: when the cache rejects a freshly loaded file because it is larger than
\* the cache limit, the cache-wrapping loader still returns that file and the
\* cache content is left as it was before the request.
C25_OversizeLoadLeavesCache ==
    [][fs' = fs =>
         LET r == CacheGetFile(cache, fs, lastLoad'.path, Resource,
                               lastLoad'.compression)
             w == FSGetFile(fs, lastLoad'.path, Resource, lastLoad'.compression)
         IN (r.wrapped /\ ~w.err /\ Size(w.fc) > cache.maxSize) =>
               /\ ~r.panic /\ ~r.err
               /\ r.fc = w.fc
               /\ Content(cache') = Content(cache)]_vars
\* The entry is one of the request path: its file is one that the path can
\* resolve to
EntryOfPath(fc, requestPath) ==
    \E i \in 1..Len(Candidates(Resource, requestPath)) :
        fc.AbsolutePath = Candidates(Resource, requestPath)[i]

\* C27: every entry the loader inserts on a miss is stored under the key
\* derived from the entry's own Compression flag (path + "gzip" if and only if
\* the entry is compressed), so a lookup under the compressed key of a path
\* only ever returns a compressed entry of that path, and a lookup under the
\* uncompressed key only ever returns an uncompressed entry of that path.
C27_KeyTellsPathAndCompression ==
    [][fs' = fs =>
         LET p == lastLoad'.path
             r == CacheGetFile(cache, fs, p, Resource, lastLoad'.compression)
             key == IF r.fc.Compression THEN p \o CompressionSuffix ELSE p
         IN /\ (r.wrapped /\ r.fc # NoFile /\ ~r.panic
                  /\ Size(r.fc) <= cache.maxSize) =>
                 /\ key \in DOMAIN cache'.keyValMap
                 /\ EntryAt(cache', key) = r.fc
            /\ (r.found # NoFile) =>
                 /\ EntryOfPath(r.found, p)
                 /\ r.found.Compression <=> (r.foundKey = p \o CompressionSuffix)
                 /\ ~r.found.Compression <=> (r.foundKey = p)]_vars

\* C35: when two filesystem rules with different roots share one named cache,
\* a request served by one rule never receives file content that was loaded
\* from the other rule's root: every cache hit returns an entry whose absolute
\* path is the path the requesting rule resolves the request to.
C35_SharedCacheKeepsRootsApart ==
    [][\A res \in SharedResources : lastLoad'.root = res.Path =>
         LET r == CacheGetFile(cache, fs, lastLoad'.path, res, lastLoad'.compression)
         IN (r.fc # NoFile /\ ~r.wrapped) =>
               /\ SubSeq(r.fc.AbsolutePath, 1, Len(res.Path)) = res.Path
               /\ r.fc.AbsolutePath = LocateFile(fs, lastLoad'.path, res).path]_vars

====
